---- MODULE Spec2Model ----
(***************************************************************************)
(* A model of the cronx core (plus-99/cronx): the lock protocol of the     *)
(* storage adapters (Memory, SQLite, PostgreSQL, Redis), the JobExecutor   *)
(* that runs a job under that lock with retries, backoff, timeout and      *)
(* callbacks, and the Scheduler and Cronx facade with their timers.        *)
(*                                                                         *)
(* Time is the millisecond clock of Date.now().  SQLite stores instants as *)
(* toISOString() text and compares the text; that format is fixed-width    *)
(* with millisecond precision, so its order is the order of the integers   *)
(* used here.                                                              *)
(***************************************************************************)
EXTENDS Integers, FiniteSets, Sequences, TLC

\* ------------------------------------------------------------ constants

\* JobExecutor.lockTTL: the TTL of every lock the executor takes (ms).
lockTTL == 60000

\* JobExecutor.lockExtendInterval: the period of the extension timer (ms).
lockExtendInterval == 30000

\* FixedBackoffStrategy: the default delay (ms).
fixedDelay == 1000

\* ExponentialBackoffStrategy: the default base delay (ms).
baseDelay == 1000

\* ExponentialBackoffStrategy: the default maximal delay (ms).
maxDelay == 30000

\* ExponentialBackoffStrategy: the default factor.
factor == 2

\* --------------------------------------------------------------- bounds

\* The lock-protocol specifications advance the clock this many times.
MaxTicks == 3

\* The worker ids of the Coordinators sharing one storage.
Workers == {"w1", "w2"}

\* The job names locks are taken on.
Jobs == {"j1", "j2"}

\* The clock step of the lock-protocol specifications: a lock taken with
\* lockTTL is seen before, exactly at and after its expiry.
ClockStep == lockExtendInterval

\* ---------------------------------------------------------------- state

VARIABLES
  now,          \* the clock: Date.now() / new Date()
  memLocks,     \* MemoryStorageAdapter.locks: jobName -> LockInfo
  sqliteLocks,  \* SQLiteStorageAdapter: the rows of table locks
  redisLocks,   \* RedisStorageAdapter: the keys cronx:lock:<jobName>
  pgLocks,      \* PostgresStorageAdapter: the rows of table locks
  pgCall,       \* per worker: its PostgreSQL acquireLock call in flight
  lastCall,     \* the last call made: on the locks, the stores or the Cronx API
  jobs,         \* MemoryStorageAdapter.jobs: name -> Job
  jobRuns,      \* MemoryStorageAdapter.jobRuns: id -> JobRun
  exec,         \* per executeJob call: where it is and its local variables
  cronx,        \* the Cronx facade: isStarted, jobHandlers, its storage
  scheduler,    \* the Scheduler: jobs, timers, isRunning, the armed timeouts
  stores        \* what each storage adapter holds of jobs and runs

lockVars == <<now, memLocks, sqliteLocks, redisLocks, pgLocks, pgCall, lastCall>>

execVars == <<jobs, jobRuns, exec>>

coordVars == <<cronx, scheduler>>

\* ----------------------------------------------------------------- maps

\* new Map(): no entry.
EmptyMap == [k \in {} |-> 0]

\* Map.set(k, v)
MapSet(m, k, v) == [x \in (DOMAIN m) \cup {k} |-> IF x = k THEN v ELSE m[x]]

\* Map.delete(k)
MapDelete(m, k) == [x \in (DOMAIN m) \ {k} |-> m[x]]

\* interface LockInfo { workerId; expiresAt }
LockInfo(workerId, expiresAt) == [workerId |-> workerId, expiresAt |-> expiresAt]

\* ------------------------------------------------- MemoryStorageAdapter

\* acquireLock: the value returned.
MemoryAcquireRet(locks, jobName, workerId, t) ==
  IF jobName \in DOMAIN locks /\ locks[jobName].expiresAt > t
    THEN locks[jobName].workerId = workerId
    ELSE TRUE

\* acquireLock: the lock map afterwards.  A live lock is left as it is,
\* also when the caller owns it.
MemoryAcquireLocks(locks, jobName, workerId, ttl, t) ==
  IF jobName \in DOMAIN locks /\ locks[jobName].expiresAt > t
    THEN locks
    ELSE MapSet(locks, jobName, LockInfo(workerId, t + ttl))

\* releaseLock: the value returned.
MemoryReleaseRet(locks, jobName, workerId) ==
  jobName \in DOMAIN locks /\ locks[jobName].workerId = workerId

\* releaseLock deleting whatever record the job has.
MemoryReleaseLocksAnyOwner(locks, jobName, workerId) ==
  MapDelete(locks, jobName)

\* releaseLock: the lock map afterwards.
MemoryReleaseLocks(locks, jobName, workerId) ==
  IF jobName \in DOMAIN locks /\ locks[jobName].workerId = workerId
    THEN MapDelete(locks, jobName)
    ELSE locks

\* extendLock: the value returned.
MemoryExtendRet(locks, jobName, workerId) ==
  jobName \in DOMAIN locks /\ locks[jobName].workerId = workerId

\* extendLock moving the expiry of whatever record the job has.
MemoryExtendLocksAnyOwner(locks, jobName, workerId, ttl, t) ==
  IF jobName \in DOMAIN locks
    THEN MapSet(locks, jobName, LockInfo(locks[jobName].workerId, t + ttl))
    ELSE locks

\* extendLock: the lock map afterwards.  The record is extended whether or
\* not it has expired: the map never drops an expired record by itself.
MemoryExtendLocks(locks, jobName, workerId, ttl, t) ==
  IF jobName \in DOMAIN locks /\ locks[jobName].workerId = workerId
    THEN MapSet(locks, jobName, LockInfo(workerId, t + ttl))
    ELSE locks

\* ------------------------------------- SQLite / PostgreSQL (table locks)

\* DELETE FROM locks WHERE expires_at < now
SqlDeleteExpired(rows, t) ==
  [k \in {x \in DOMAIN rows : ~(rows[x].expiresAt < t)} |-> rows[k]]

\* INSERT INTO locks ... ON CONFLICT(job_name) DO UPDATE SET ... WHERE
\* worker_id = excluded.worker_id OR expires_at < now: whether a row changed.
SqlUpsertChanges(rows, jobName, workerId, t) ==
  \/ jobName \notin DOMAIN rows
  \/ rows[jobName].workerId = workerId
  \/ rows[jobName].expiresAt < t

\* The table after that INSERT ... ON CONFLICT.
SqlUpsertRows(rows, jobName, workerId, expiresAt, t) ==
  IF SqlUpsertChanges(rows, jobName, workerId, t)
    THEN MapSet(rows, jobName, LockInfo(workerId, expiresAt))
    ELSE rows

\* SQLiteStorageAdapter.acquireLock: result.changes > 0.  better-sqlite3 is
\* synchronous: the DELETE and the INSERT run with nothing in between.
SQLiteAcquireRet(rows, jobName, workerId, t) ==
  SqlUpsertChanges(SqlDeleteExpired(rows, t), jobName, workerId, t)

\* SQLiteStorageAdapter.acquireLock: the table afterwards.
SQLiteAcquireLocks(rows, jobName, workerId, ttl, t) ==
  SqlUpsertRows(SqlDeleteExpired(rows, t), jobName, workerId, t + ttl, t)

\* SQLiteStorageAdapter.releaseLock: result.changes > 0 of
\* DELETE FROM locks WHERE job_name = ? AND worker_id = ?
SQLiteReleaseRet(rows, jobName, workerId) ==
  jobName \in DOMAIN rows /\ rows[jobName].workerId = workerId

\* SQLiteStorageAdapter.releaseLock: the table afterwards.
SQLiteReleaseLocks(rows, jobName, workerId) ==
  IF SQLiteReleaseRet(rows, jobName, workerId) THEN MapDelete(rows, jobName) ELSE rows

\* SQLiteStorageAdapter.extendLock: result.changes > 0 of
\* UPDATE locks SET expires_at = ? WHERE job_name = ? AND worker_id = ?
SQLiteExtendRet(rows, jobName, workerId) ==
  jobName \in DOMAIN rows /\ rows[jobName].workerId = workerId

\* SQLiteStorageAdapter.extendLock: the table afterwards.
SQLiteExtendLocks(rows, jobName, workerId, ttl, t) ==
  IF SQLiteExtendRet(rows, jobName, workerId)
    THEN MapSet(rows, jobName, LockInfo(workerId, t + ttl))
    ELSE rows

\* -------------------------------------------------- RedisStorageAdapter
\* A key is the job's lock; its value is the worker id and it carries the
\* expiry PX / PEXPIRE gave it.  The server drops a key once its expiry has
\* passed (RedisExpire, part of every clock step), so a key that is present
\* is live.

\* The keys the server still holds at time t.
RedisExpire(keys, t) ==
  [k \in {x \in DOMAIN keys : keys[x].expiresAt > t} |-> keys[k]]

\* acquireLock: SET key workerId PX ttl NX answered 'OK'.
RedisAcquireRet(keys, jobName, workerId) ==
  jobName \notin DOMAIN keys

\* acquireLock: the keys afterwards.
RedisAcquireLocks(keys, jobName, workerId, ttl, t) ==
  IF jobName \notin DOMAIN keys
    THEN MapSet(keys, jobName, LockInfo(workerId, t + ttl))
    ELSE keys

\* releaseLock: the script's GET == ARGV[1], then DEL.
RedisReleaseRet(keys, jobName, workerId) ==
  jobName \in DOMAIN keys /\ keys[jobName].workerId = workerId

\* releaseLock: the keys afterwards.
RedisReleaseLocks(keys, jobName, workerId) ==
  IF RedisReleaseRet(keys, jobName, workerId) THEN MapDelete(keys, jobName) ELSE keys

\* extendLock: the script's GET == ARGV[1], then PEXPIRE.
RedisExtendRet(keys, jobName, workerId) ==
  jobName \in DOMAIN keys /\ keys[jobName].workerId = workerId

\* extendLock: the keys afterwards.
RedisExtendLocks(keys, jobName, workerId, ttl, t) ==
  IF RedisExtendRet(keys, jobName, workerId)
    THEN MapSet(keys, jobName, LockInfo(workerId, t + ttl))
    ELSE keys

\* ------------------------------------------ the lock calls, one by one
\* Memory, SQLite and Redis are given the same calls at the same instants;
\* lastCall keeps the call, what each backend answered and what each held
\* before.

Backends == {"memory", "sqlite", "redis"}

\* The ttl values callers pass: the executor always passes lockTTL.
TTLs == {lockTTL}

NoCall ==
  [op |-> "none", jobName |-> "", workerId |-> "", ttl |-> 0, at |-> 0,
   ret |-> [memory |-> FALSE, sqlite |-> FALSE, redis |-> FALSE],
   pre |-> [memory |-> EmptyMap, sqlite |-> EmptyMap, redis |-> EmptyMap]]

Call(op, jobName, workerId, ttl, ret) ==
  [op |-> op, jobName |-> jobName, workerId |-> workerId, ttl |-> ttl, at |-> now,
   ret |-> ret,
   pre |-> [memory |-> memLocks, sqlite |-> sqliteLocks, redis |-> redisLocks]]

\* The locks a backend holds now.
CurrentLocks(b) ==
  CASE b = "memory" -> memLocks
    [] b = "sqlite" -> sqliteLocks
    [] b = "redis" -> redisLocks

\* storage.acquireLock(jobName, workerId, ttl)
AcquireLock(jobName, workerId, ttl) ==
  /\ memLocks' = MemoryAcquireLocks(memLocks, jobName, workerId, ttl, now)
  /\ sqliteLocks' = SQLiteAcquireLocks(sqliteLocks, jobName, workerId, ttl, now)
  /\ redisLocks' = RedisAcquireLocks(redisLocks, jobName, workerId, ttl, now)
  /\ lastCall' = Call("acquireLock", jobName, workerId, ttl,
                      [memory |-> MemoryAcquireRet(memLocks, jobName, workerId, now),
                       sqlite |-> SQLiteAcquireRet(sqliteLocks, jobName, workerId, now),
                       redis |-> RedisAcquireRet(redisLocks, jobName, workerId)])
  /\ UNCHANGED <<now, pgLocks, pgCall, execVars, coordVars, stores>>

\* storage.releaseLock(jobName, workerId)
ReleaseLock(jobName, workerId) ==
  /\ memLocks' = MemoryReleaseLocks(memLocks, jobName, workerId)
  /\ sqliteLocks' = SQLiteReleaseLocks(sqliteLocks, jobName, workerId)
  /\ redisLocks' = RedisReleaseLocks(redisLocks, jobName, workerId)
  /\ lastCall' = Call("releaseLock", jobName, workerId, 0,
                      [memory |-> MemoryReleaseRet(memLocks, jobName, workerId),
                       sqlite |-> SQLiteReleaseRet(sqliteLocks, jobName, workerId),
                       redis |-> RedisReleaseRet(redisLocks, jobName, workerId)])
  /\ UNCHANGED <<now, pgLocks, pgCall, execVars, coordVars, stores>>

\* storage.extendLock(jobName, workerId, ttl)
ExtendLock(jobName, workerId, ttl) ==
  /\ memLocks' = MemoryExtendLocks(memLocks, jobName, workerId, ttl, now)
  /\ sqliteLocks' = SQLiteExtendLocks(sqliteLocks, jobName, workerId, ttl, now)
  /\ redisLocks' = RedisExtendLocks(redisLocks, jobName, workerId, ttl, now)
  /\ lastCall' = Call("extendLock", jobName, workerId, ttl,
                      [memory |-> MemoryExtendRet(memLocks, jobName, workerId),
                       sqlite |-> SQLiteExtendRet(sqliteLocks, jobName, workerId),
                       redis |-> RedisExtendRet(redisLocks, jobName, workerId)])
  /\ UNCHANGED <<now, pgLocks, pgCall, execVars, coordVars, stores>>

\* The clock advances; the Redis server drops the keys whose expiry passed.
ClockTick ==
  /\ now + ClockStep <= MaxTicks * ClockStep
  /\ now' = now + ClockStep
  /\ redisLocks' = RedisExpire(redisLocks, now')
  /\ lastCall' = NoCall
  /\ UNCHANGED <<memLocks, sqliteLocks, pgLocks, pgCall, execVars, coordVars, stores>>

\* ------------------------------- PostgresStorageAdapter.acquireLock
\* The call reads the clock, then awaits two queries: the DELETE of the
\* expired rows and the INSERT ... ON CONFLICT.  Other calls and the clock
\* move between them.

PgIdle ==
  [pc |-> "idle", jobName |-> "", now |-> 0, noPrior |-> FALSE,
   concurrent |-> {}, ret |-> FALSE]

\* const now = new Date(); const expiresAt = new Date(now.getTime() + ttl)
PgAcquireBegin(jobName, workerId) ==
  /\ pgCall[workerId].pc \in {"idle", "returned"}
  /\ pgCall' = [w \in Workers |->
       IF w = workerId
         THEN [pc |-> "begun", jobName |-> jobName, now |-> now,
               noPrior |-> jobName \notin DOMAIN pgLocks,
               concurrent |-> {v \in Workers \ {workerId} :
                                 /\ pgCall[v].pc \in {"begun", "deleted"}
                                 /\ pgCall[v].jobName = jobName},
               ret |-> FALSE]
         ELSE [pgCall[w] EXCEPT !.concurrent = @ \ {workerId}]]
  /\ UNCHANGED <<now, memLocks, sqliteLocks, redisLocks, pgLocks, lastCall, execVars, coordVars, stores>>

\* await client.query('DELETE FROM locks WHERE expires_at < $1', [now])
PgAcquireDelete(workerId) ==
  /\ pgCall[workerId].pc = "begun"
  /\ pgLocks' = SqlDeleteExpired(pgLocks, pgCall[workerId].now)
  /\ pgCall' = [pgCall EXCEPT ![workerId].pc = "deleted"]
  /\ UNCHANGED <<now, memLocks, sqliteLocks, redisLocks, lastCall, execVars, coordVars, stores>>

\* await client.query('INSERT INTO locks ... ON CONFLICT ... RETURNING job_name');
\* return rowCount > 0
PgAcquireInsert(workerId) ==
  /\ pgCall[workerId].pc = "deleted"
  /\ LET c == pgCall[workerId] IN
       /\ pgLocks' = SqlUpsertRows(pgLocks, c.jobName, workerId, c.now + lockTTL, c.now)
       /\ pgCall' = [pgCall EXCEPT
            ![workerId].pc = "returned",
            ![workerId].ret = SqlUpsertChanges(pgLocks, c.jobName, workerId, c.now)]
  /\ UNCHANGED <<now, memLocks, sqliteLocks, redisLocks, lastCall, execVars, coordVars, stores>>

\* The clock advances while PostgreSQL calls are in flight.
PgClockTick ==
  /\ now + ClockStep <= MaxTicks * ClockStep
  /\ now' = now + ClockStep
  /\ UNCHANGED <<memLocks, sqliteLocks, redisLocks, pgLocks, pgCall, lastCall, execVars, coordVars, stores>>

\* ---------------------------------------------------------- JobExecutor
\* Executions run on the storage of the Coordinator: the Memory adapter,
\* which two Coordinators of one process share, or the SQLite adapter, whose
\* calls throw while its database is closed.  Storage calls take no time: a
\* step that only waits for a
\* storage call is taken before the clock moves.  The clock moves to the
\* next instant something is due: a handler settling, a sleep ending, the
\* extension timer, a lock's expiresAt.

\* The executeJob calls made (each by Cronx.runJob).
Execs == {1, 2}

\* options.retries is at most this.
MaxRetries == 2

\* How long a handler runs before it settles (ms): shorter than
\* lockExtendInterval, and longer than lockTTL.
QuickHandler == 25000

SlowHandler == 70000

HandlerDurations == {QuickHandler, SlowHandler}

\* The job registered in storage.
JobName == "j1"

\* A cron expression that is due at every full minute.
EveryMinute == "* * * * *"

\* A string that is no cron expression.
Unparseable == "every minute"

\* The cron expressions schedule() is called with.
Schedules == {EveryMinute, Unparseable}

\* parseExpression(schedule) returns (it throws otherwise).
Parses(schedule) == schedule = EveryMinute

\* interface Job (the fields the executor and the scheduler read)
\* timeout 0 is no timeout; onSuccess / onError are "none" (not provided),
\* "ok" (returns) or "throws".
Job(name, isPaused, retries, backoff) ==
  [name |-> name, isPaused |-> isPaused, retries |-> retries, backoff |-> backoff,
   timeout |-> 0, onSuccess |-> "none", onError |-> "none", schedule |-> EveryMinute]

\* A retry that kept the id of the run before it.
RunIdReused(e, n) == [exec |-> e, n |-> 1]

\* randomUUID(): the n-th id drawn by execution e; no two are equal.
RunId(e, n) == [exec |-> e, n |-> n]

\* A run whose attempts are counted from 0.
JobRunFromZero(id, jobName, status, attempt, startTime, endTime) ==
  [id |-> id, jobName |-> jobName, status |-> status, attempt |-> attempt - 1,
   startTime |-> startTime, endTime |-> endTime, error |-> ""]

\* interface JobRun; -1 stands for an undefined startTime / endTime.
JobRun(id, jobName, status, attempt, startTime, endTime) ==
  [id |-> id, jobName |-> jobName, status |-> status, attempt |-> attempt,
   startTime |-> startTime, endTime |-> endTime, error |-> ""]

NoRun == JobRun(RunId(0, 0), "", "none", 0, -1, -1)

\* MemoryStorageAdapter.saveJobRun: jobRuns.set(run.id, { ...run })
MemorySaveJobRun(runs, run) == MapSet(runs, run.id, run)

Min(a, b) == IF a <= b THEN a ELSE b

RECURSIVE Pow(_, _)
\* Math.pow(b, n) for a natural n
Pow(b, n) == IF n = 0 THEN 1 ELSE b * Pow(b, n - 1)

\* FixedBackoffStrategy.calculate
FixedBackoffCalculate(attempt) == fixedDelay

ExponentialBackoffUnclamped(attempt) == baseDelay * Pow(factor, attempt - 1)

\* ExponentialBackoffStrategy.calculate
ExponentialBackoffCalculate(attempt) ==
  Min(baseDelay * Pow(factor, attempt - 1), maxDelay)

\* getBackoffStrategy(strategy).calculate(attempt)
BackoffDelay(strategy, attempt) ==
  IF strategy = "exponential"
    THEN ExponentialBackoffCalculate(attempt)
    ELSE FixedBackoffCalculate(attempt)

\* options.timeout of a job that has one (ms): between the two handler
\* durations.
JobTimeout == 40000

\* The storage of the Coordinator: configured as memory:// or sqlite://.
StorageKinds == {"memory", "sqlite"}

\* A Cronx instance after its constructor; db says that the adapter holds
\* an open handle (SQLite: this.db, Redis: this.client).
CronxNew(storage) ==
  [isStarted |-> FALSE, jobHandlers |-> {}, storage |-> storage, db |-> FALSE]

\* A Scheduler after its constructor: jobs maps a name to the job's cron
\* expression, nextRun and lastRun hold job.nextRun and job.lastRun, armed
\* holds the timeouts set and neither fired nor cleared, fires counts the
\* calls of Scheduler.executeJob.
SchedulerNew ==
  [jobs |-> EmptyMap, timers |-> EmptyMap, isRunning |-> FALSE, armed |-> {},
   nextTimer |-> 1, nextRun |-> EmptyMap, lastRun |-> EmptyMap, fires |-> 0]

\* The period of "* * * * *" (ms).
CronPeriod == 60000

\* Timer ids are drawn up to this one by schedule() and start().
MaxTimers == 4

\* The clock stops after this many timer expiries.
MaxFires == 2

\* parseExpression(schedule).next(): the first full minute after t.
NextFire(t) == ((t \div CronPeriod) + 1) * CronPeriod

\* The NodeJS.Timeout of setTimeout: its id, the job of its closure (name
\* and cron expression), when it is due.
Timeout(id, name, schedule, at) ==
  [id |-> id, name |-> name, schedule |-> schedule, at |-> at]

\* clearTimeout(timer)
ClearTimeout(armed, id) == {t \in armed : t.id # id}

\* Scheduler.scheduleJob at instant t: job.nextRun from the cron
\* expression, a timeout for it, this.timers.set(job.name, timer); a timeout
\* already set for the job is not cleared.  When parseExpression throws,
\* the catch only logs.
ScheduleJob(s, name, schedule, t) ==
  IF Parses(schedule)
    THEN [s EXCEPT !.armed = @ \cup {Timeout(s.nextTimer, name, schedule, NextFire(t))},
                   !.timers = MapSet(@, name, s.nextTimer),
                   !.nextRun = MapSet(@, name, NextFire(t)),
                   !.nextTimer = @ + 1]
    ELSE s

\* Scheduler.addJob (job.isActive is true for every job schedule() makes).
SchedulerAddJob(s, name, schedule, t) ==
  LET added == [s EXCEPT !.jobs = MapSet(@, name, schedule)] IN
  IF s.isRunning THEN ScheduleJob(added, name, schedule, t) ELSE added

\* Scheduler.removeJob: the scheduler afterwards; it returns
\* name \in DOMAIN s.jobs.
SchedulerRemoveJob(s, name) ==
  LET cleared == IF name \in DOMAIN s.timers
                   THEN [s EXCEPT !.armed = ClearTimeout(@, s.timers[name]),
                                  !.timers = MapDelete(@, name)]
                   ELSE s
  IN [cleared EXCEPT !.jobs = MapDelete(@, name)]

RECURSIVE ScheduleAll(_, _, _)
\* for (const job of this.jobs.values()) this.scheduleJob(job)
ScheduleAll(s, names, t) ==
  IF names = {} THEN s
  ELSE LET n == CHOOSE n \in names : TRUE
       IN ScheduleAll(ScheduleJob(s, n, s.jobs[n], t), names \ {n}, t)

\* Scheduler.start
SchedulerStart(s, t) ==
  IF s.isRunning THEN s
  ELSE ScheduleAll([s EXCEPT !.isRunning = TRUE], DOMAIN s.jobs, t)

\* Scheduler.stop: clears the timeouts of this.timers.
SchedulerStop(s) ==
  IF ~s.isRunning THEN s
  ELSE [s EXCEPT !.isRunning = FALSE,
                 !.armed = {t \in @ : \A n \in DOMAIN s.timers : s.timers[n] # t.id},
                 !.timers = EmptyMap]

\* A manual run that would go through the scheduler: the job's timer set
\* again at instant t.
SchedulerRearmed(s, name, t) ==
  IF name \in DOMAIN s.jobs THEN ScheduleJob(s, name, s.jobs[name], t) ELSE s

\* Cronx.runJob calls this.getJob and this.executor.executeJob and nothing
\* of this.scheduler: the Scheduler after it.
SchedulerAfterRunJob(s, name, t) == s

\* if (!this.db) throw new StorageError('Database not connected') and
\* if (!this.client) throw new StorageError('Redis client not connected')
Closed == cronx.storage # "memory" /\ ~cronx.db

\* The lock records of the Coordinator's storage.
StorageLocks == IF cronx.storage = "sqlite" THEN sqliteLocks ELSE memLocks

\* storage.acquireLock: its result.
StorageAcquireRet(jobName, workerId, t) ==
  IF cronx.storage = "sqlite"
    THEN SQLiteAcquireRet(sqliteLocks, jobName, workerId, t)
    ELSE MemoryAcquireRet(memLocks, jobName, workerId, t)

NeverShortCircuits(job) == FALSE

\* executeJob: if (job.isPaused) return the skipped run.
ShortCircuits(job) == job.isPaused

AfterAcquireReleasing(isLockAcquired) ==
  IF isLockAcquired THEN "acquired" ELSE "release"

\* executeJob: where it goes on after acquireJobLock; without the lock it
\* returns before the try / finally that releases.
AfterAcquire(isLockAcquired) ==
  IF isLockAcquired THEN "acquired" ELSE "done"

IsLastAttemptOneEarly(attempt, maxRetries) == attempt >= maxRetries

\* executeJobWithRetries: if (attempt === maxRetries + 1) throw
IsLastAttempt(attempt, maxRetries) == attempt = maxRetries + 1

NeverTimesOut(timeout, duration) == FALSE

\* executeJobHandler: the timeout timer rejects before the handler settles.
\* (!timeout: no timer for 0 or undefined.)
TimesOut(timeout, duration) == timeout # 0 /\ duration > timeout

CallbackPropagates(callback) ==
  IF callback = "throws" THEN "throws" ELSE "normal"

\* try { await callback(...) } catch (callbackError) { logger.warn }: how
\* the statement completes for a callback not provided, returning, throwing.
TryCallback(callback) == "normal"

ExecIdle ==
  [pc |-> "idle", workerId |-> "", job |-> Job("", FALSE, 0, "fixed"),
   attempt |-> 0, run |-> NoRun, ids |-> 0, until |-> -1, handlerOk |-> FALSE,
   extAt |-> -1, outcome |-> "none", duration |-> -1, stray |-> {}]

\* Steps that wait for nothing but a storage call.
ReadyPcs == {"got", "acquired", "retries", "completed", "catch", "failed", "release"}

\* Between the successful acquireLock of executeJob and its releaseLock.
InsidePcs ==
  {"acquired", "retries", "handler", "completed", "catch", "failed", "sleep", "release"}

\* Cronx.pauseJob: storage.pauseJob(name)
PauseJob(name) ==
  /\ ~Closed
  /\ name \in DOMAIN jobs
  /\ ~jobs[name].isPaused
  /\ jobs' = [jobs EXCEPT ![name].isPaused = TRUE]
  /\ UNCHANGED <<lockVars, jobRuns, exec, coordVars, stores>>

\* Cronx.resumeJob: storage.resumeJob(name)
ResumeJob(name) ==
  /\ ~Closed
  /\ name \in DOMAIN jobs
  /\ jobs[name].isPaused
  /\ jobs' = [jobs EXCEPT ![name].isPaused = FALSE]
  /\ UNCHANGED <<lockVars, jobRuns, exec, coordVars, stores>>

\* Cronx.runJob: const job = await this.getJob(name), a copy of the record.
RunJob(e, workerId, name) ==
  /\ ~Closed
  /\ exec[e].pc = "idle"
  /\ name \in DOMAIN jobs
  /\ exec' = [exec EXCEPT ![e] =
       [ExecIdle EXCEPT !.pc = "got", !.workerId = workerId, !.job = jobs[name]]]
  /\ scheduler' = SchedulerAfterRunJob(scheduler, name, now)
  /\ UNCHANGED <<lockVars, jobs, jobRuns, cronx, stores>>

\* executeJob up to its first storage call: a paused job returns a skipped
\* run that is not saved; otherwise acquireJobLock (false when acquireLock
\* throws), and a skipped run that is not saved when the lock is not
\* acquired.
ExecuteJob(e) ==
  LET x == exec[e]
      got == ~Closed /\ StorageAcquireRet(x.job.name, x.workerId, now)
      skipped == JobRun(RunId(e, 1), x.job.name, "completed", 1, now, now)
  IN
  /\ x.pc = "got"
  /\ IF ShortCircuits(x.job)
       THEN /\ exec' = [exec EXCEPT ![e].pc = "done", ![e].ids = 1,
                          ![e].run = skipped, ![e].outcome = "skippedPaused"]
            /\ UNCHANGED <<memLocks, sqliteLocks>>
       ELSE /\ memLocks' = IF ~Closed /\ cronx.storage = "memory"
                 THEN MemoryAcquireLocks(memLocks, x.job.name, x.workerId, lockTTL, now)
                 ELSE memLocks
            /\ sqliteLocks' = IF ~Closed /\ cronx.storage = "sqlite"
                 THEN SQLiteAcquireLocks(sqliteLocks, x.job.name, x.workerId, lockTTL, now)
                 ELSE sqliteLocks
            /\ exec' = IF got
                 THEN [exec EXCEPT ![e].pc = AfterAcquire(TRUE), ![e].ids = 1,
                         ![e].run = JobRun(RunId(e, 1), x.job.name, "pending", 1, -1, -1)]
                 ELSE [exec EXCEPT ![e].pc = AfterAcquire(FALSE), ![e].ids = 1,
                         ![e].run = skipped, ![e].outcome = "skippedLocked"]
  /\ UNCHANGED <<now, redisLocks, pgLocks, pgCall, lastCall, jobs, jobRuns, coordVars, stores>>

\* executeJob: await this.storage.saveJobRun(jobRun), the pending run; when
\* it throws, finally releaseJobLock and the error goes to the caller.
SavePending(e) ==
  /\ exec[e].pc = "acquired"
  /\ IF Closed
       THEN /\ exec' = [exec EXCEPT ![e].pc = "release", ![e].outcome = "threwStorage"]
            /\ UNCHANGED jobRuns
       ELSE /\ jobRuns' = MemorySaveJobRun(jobRuns, exec[e].run)
            /\ exec' = [exec EXCEPT ![e].pc = "retries", ![e].attempt = 1]
  /\ UNCHANGED <<lockVars, jobs, coordVars, stores>>

\* executeJobWithRetries, the head of an iteration: the run becomes running
\* and is saved, the extension timer is set up, the handler is invoked
\* (with the timeout timer when options.timeout is set).  A saveJobRun that
\* throws here is outside the try: the error leaves executeJobWithRetries.
StartAttempt(e) ==
  LET x == exec[e]
      running == [x.run EXCEPT !.attempt = x.attempt, !.status = "running",
                               !.startTime = now]
  IN
  /\ x.pc = "retries"
  /\ x.attempt <= x.job.retries + 1
  /\ IF Closed
       THEN /\ exec' = [exec EXCEPT ![e].pc = "release", ![e].outcome = "threwStorage"]
            /\ UNCHANGED jobRuns
       ELSE /\ jobRuns' = MemorySaveJobRun(jobRuns, running)
            /\ \E d \in HandlerDurations, ok \in BOOLEAN :
                 LET timed == TimesOut(x.job.timeout, d) IN
                 exec' = [exec EXCEPT ![e].pc = "handler", ![e].run = running,
                            ![e].extAt = now + lockExtendInterval,
                            ![e].until = now + (IF timed THEN x.job.timeout ELSE d),
                            ![e].handlerOk = ok /\ ~timed,
                            ![e].duration = d,
                            ![e].stray = IF timed THEN x.stray \cup {now + d}
                                                  ELSE x.stray]
  /\ UNCHANGED <<lockVars, jobs, coordVars, stores>>

\* The handler settles or the timeout timer rejects: the run becomes
\* completed or failed and is saved.  When the save of the completed run
\* throws, the error is caught by the catch block of the attempt; when the
\* save of the failed run throws, the error leaves executeJobWithRetries
\* (finally clearInterval).
HandlerSettles(e) ==
  LET x == exec[e]
      error == IF x.handlerOk THEN ""
               ELSE IF TimesOut(x.job.timeout, x.duration) THEN "timed out"
               ELSE "handler"
      ended == [x.run EXCEPT !.status = IF x.handlerOk THEN "completed" ELSE "failed",
                             !.endTime = now, !.error = error]
  IN
  /\ x.pc = "handler"
  /\ x.until = now
  /\ IF Closed
       THEN /\ exec' = IF x.handlerOk
                 THEN [exec EXCEPT ![e].pc = "catch", ![e].until = -1,
                         ![e].run = ended]
                 ELSE [exec EXCEPT ![e].pc = "release", ![e].until = -1,
                         ![e].extAt = -1, ![e].outcome = "threwStorage",
                         ![e].run = ended]
            /\ UNCHANGED jobRuns
       ELSE /\ jobRuns' = MemorySaveJobRun(jobRuns, ended)
            /\ exec' = [exec EXCEPT ![e].pc = IF x.handlerOk THEN "completed" ELSE "failed",
                          ![e].run = ended, ![e].until = -1]
  /\ UNCHANGED <<lockVars, jobs, coordVars, stores>>

\* The catch block of the attempt after the save of the completed run
\* threw: the run becomes failed with the error's message and is saved;
\* when this save throws too, the error leaves executeJobWithRetries
\* (finally clearInterval).
CatchSave(e) ==
  LET x == exec[e]
      failed == [x.run EXCEPT !.status = "failed", !.endTime = now,
                              !.error = "storage"]
  IN
  /\ x.pc = "catch"
  /\ IF Closed
       THEN /\ exec' = [exec EXCEPT ![e].pc = "release", ![e].extAt = -1,
                          ![e].outcome = "threwStorage", ![e].run = failed]
            /\ UNCHANGED jobRuns
       ELSE /\ jobRuns' = MemorySaveJobRun(jobRuns, failed)
            /\ exec' = [exec EXCEPT ![e].pc = "failed", ![e].run = failed]
  /\ UNCHANGED <<lockVars, jobs, coordVars, stores>>

\* After the completed run is saved: onSuccess in its own try / catch, then
\* return currentRun; finally clearInterval(lockExtender).  (An error
\* leaving that try / catch would reach the catch block of the attempt.)
ReturnRun(e) ==
  LET x == exec[e]
      failed == [x.run EXCEPT !.status = "failed", !.endTime = now,
                              !.error = "callback"]
  IN
  /\ x.pc = "completed"
  /\ IF TryCallback(x.job.onSuccess) = "throws"
       THEN IF Closed
              THEN /\ exec' = [exec EXCEPT ![e].pc = "release", ![e].extAt = -1,
                                 ![e].outcome = "threwStorage"]
                   /\ UNCHANGED jobRuns
              ELSE /\ jobRuns' = MemorySaveJobRun(jobRuns, failed)
                   /\ exec' = [exec EXCEPT ![e].pc = "failed", ![e].run = failed]
       ELSE /\ exec' = [exec EXCEPT ![e].pc = "release", ![e].extAt = -1,
                          ![e].duration = -1, ![e].outcome = "completed"]
            /\ UNCHANGED jobRuns
  /\ UNCHANGED <<lockVars, jobs, coordVars, stores>>

\* After the failed run is saved: onError in its own try / catch; then the
\* last attempt throws JobExecutionError (finally clearInterval); any other
\* sleeps for the backoff delay, with the extension timer of this attempt
\* still set.
AfterFailure(e) ==
  LET x == exec[e] IN
  /\ x.pc = "failed"
  /\ exec' =
       IF TryCallback(x.job.onError) = "throws"
         THEN [exec EXCEPT ![e].pc = "release", ![e].extAt = -1,
                 ![e].duration = -1, ![e].outcome = "threwCallback"]
       ELSE IF IsLastAttempt(x.attempt, x.job.retries)
         THEN [exec EXCEPT ![e].pc = "release", ![e].extAt = -1,
                 ![e].duration = -1, ![e].outcome = "threw"]
         ELSE [exec EXCEPT ![e].pc = "sleep", ![e].duration = -1,
                 ![e].until = now + BackoffDelay(x.job.backoff, x.attempt)]
  /\ UNCHANGED <<lockVars, jobs, jobRuns, coordVars, stores>>

\* The sleep ends: a new run with a fresh id for the next attempt, finally
\* clearInterval(lockExtender), and the loop goes on; past the last
\* iteration executeJobWithRetries returns the run.
Wake(e) ==
  LET x == exec[e]
      next == [exec EXCEPT ![e].pc = "retries", ![e].until = -1, ![e].extAt = -1,
                ![e].ids = x.ids + 1, ![e].attempt = x.attempt + 1,
                ![e].run = JobRun(RunId(e, x.ids + 1), x.job.name, "pending",
                                  x.attempt + 1, -1, -1)]
  IN
  /\ x.pc = "sleep"
  /\ x.until = now
  /\ exec' = IF x.attempt + 1 <= x.job.retries + 1
       THEN next
       ELSE [next EXCEPT ![e].pc = "release", ![e].outcome = "returnedPending"]
  /\ UNCHANGED <<lockVars, jobs, jobRuns, coordVars, stores>>

\* executeJob, finally: releaseJobLock, which swallows what releaseLock
\* throws.
ReleaseJobLock(e) ==
  LET x == exec[e] IN
  /\ x.pc = "release"
  /\ memLocks' = IF ~Closed /\ cronx.storage = "memory"
       THEN MemoryReleaseLocks(memLocks, x.job.name, x.workerId)
       ELSE memLocks
  /\ sqliteLocks' = IF ~Closed /\ cronx.storage = "sqlite"
       THEN SQLiteReleaseLocks(sqliteLocks, x.job.name, x.workerId)
       ELSE sqliteLocks
  /\ exec' = [exec EXCEPT ![e].pc = "done"]
  /\ UNCHANGED <<now, redisLocks, pgLocks, pgCall, lastCall, jobs, jobRuns, coordVars, stores>>

\* setupLockExtension: the setInterval callback, which swallows what
\* extendLock throws.
LockExtender(e) ==
  LET x == exec[e] IN
  /\ x.extAt = now
  /\ memLocks' = IF ~Closed /\ cronx.storage = "memory"
       THEN MemoryExtendLocks(memLocks, x.job.name, x.workerId, lockTTL, now)
       ELSE memLocks
  /\ sqliteLocks' = IF ~Closed /\ cronx.storage = "sqlite"
       THEN SQLiteExtendLocks(sqliteLocks, x.job.name, x.workerId, lockTTL, now)
       ELSE sqliteLocks
  /\ exec' = [exec EXCEPT ![e].extAt = now + lockExtendInterval]
  /\ UNCHANGED <<now, redisLocks, pgLocks, pgCall, lastCall, jobs, jobRuns, coordVars, stores>>

\* A handler the timeout abandoned settles; nothing awaits it any more.
StrayHandlerSettles(e) ==
  /\ now \in exec[e].stray
  /\ exec' = [exec EXCEPT ![e].stray = @ \ {now}]
  /\ UNCHANGED <<lockVars, jobs, jobRuns, coordVars, stores>>

\* The instants at which a timer or a handler is due.
EventTimes ==
  {exec[e].until : e \in {f \in Execs : exec[f].pc \in {"handler", "sleep"}}}
    \cup {exec[e].extAt : e \in {f \in Execs : exec[f].extAt # -1}}
    \cup UNION {exec[e].stray : e \in Execs}
    \cup {t.at : t \in scheduler.armed}

\* The instants at which a lock record expires.
ExpiryTimes == {StorageLocks[j].expiresAt : j \in DOMAIN StorageLocks}

\* The clock moves to the next such instant, once every step that is ready
\* or due has been taken.
ExecClockTick ==
  /\ \A e \in Execs : exec[e].pc \notin ReadyPcs
  /\ \A u \in EventTimes : u > now
  /\ \E t \in EventTimes \cup ExpiryTimes :
       /\ t > now
       /\ \A u \in EventTimes \cup ExpiryTimes : u > now => u >= t
       /\ now' = t
  /\ UNCHANGED <<memLocks, sqliteLocks, redisLocks, pgLocks, pgCall, lastCall, execVars, coordVars, stores>>

\* ---------------------------------------------------- backoff delays
\* The delay executeJobWithRetries sleeps after failed attempt a is
\* getBackoffStrategy(job.options.backoff).calculate(a).

\* The attempts delays are computed for.
MaxAttempt == 8

\* options.backoff: the two strategies, undefined, and any other string.
BackoffOptions == {"fixed", "exponential", "unset", "linear"}

\* calculate(attempt) is called; lastCall keeps it and the call before it.
Calculate(strategy, attempt) ==
  /\ lastCall' = [op |-> "calculate", strategy |-> strategy, attempt |-> attempt,
                  ret |-> BackoffDelay(strategy, attempt),
                  prev |-> IF lastCall.op = "calculate"
                             THEN [strategy |-> lastCall.strategy,
                                   attempt |-> lastCall.attempt, ret |-> lastCall.ret]
                             ELSE [strategy |-> "", attempt |-> 0, ret |-> 0]]
  /\ UNCHANGED <<now, memLocks, sqliteLocks, redisLocks, pgLocks, pgCall, execVars, coordVars, stores>>

\* ------------------------------------------------- Scheduler and Cronx
\* Every job is scheduled with the cron expression "* * * * *": it is due
\* at every full minute.  A timeout fires at the instant it was set for.

\* The setTimeout callback of scheduleJob: Scheduler.executeJob(job), which
\* sets job.lastRun and calls nothing else, then scheduleJob(job) when the
\* scheduler is running.
TimerFires ==
  \E t \in scheduler.armed :
    /\ t.at = now
    /\ LET fired == [scheduler EXCEPT !.armed = @ \ {t},
                       !.lastRun = MapSet(@, t.name, now),
                       !.fires = @ + 1]
       IN scheduler' = IF fired.isRunning
                         THEN ScheduleJob(fired, t.name, t.schedule, now)
                         ELSE fired
    /\ UNCHANGED <<lockVars, execVars, cronx, stores>>

\* A call of the Cronx API as lastCall keeps it: threw is "none" or the
\* class of the error the call rejected with.
CronxCall(op, name, schedule, ret, threw) ==
  [op |-> op, jobName |-> name, schedule |-> schedule, ret |-> ret, threw |-> threw]

\* Cronx.schedule: without a name it throws CronxError; otherwise the
\* handler is registered, the job saved (saveJob throws StorageError on a
\* closed database), then scheduler.addJob.  The cron expression is first
\* parsed by Scheduler.scheduleJob.
CronxSchedule(name, schedule, retries) ==
  /\ scheduler.nextTimer <= MaxTimers
  /\ IF name = ""
       THEN /\ lastCall' = CronxCall("schedule", name, schedule, FALSE, "CronxError")
            /\ UNCHANGED <<cronx, jobs, scheduler>>
       ELSE /\ cronx' = [cronx EXCEPT !.jobHandlers = @ \cup {name}]
            /\ IF Closed
                 THEN /\ lastCall' = CronxCall("schedule", name, schedule, FALSE, "StorageError")
                      /\ UNCHANGED <<jobs, scheduler>>
                 ELSE /\ lastCall' = CronxCall("schedule", name, schedule, FALSE, "none")
                      /\ jobs' = MapSet(jobs, name,
                           [Job(name, FALSE, retries, "fixed") EXCEPT !.schedule = schedule])
                      /\ scheduler' = SchedulerAddJob(scheduler, name, schedule, now)
  /\ UNCHANGED <<now, memLocks, sqliteLocks, redisLocks, pgLocks, pgCall, jobRuns, exec, stores>>

\* Cronx.unschedule: scheduler.removeJob, the handler is dropped, and the
\* job is deleted from storage when the scheduler had it (deleteJob throws
\* StorageError on a closed database); it returns what removeJob returned.
CronxUnschedule(name) ==
  LET removed == name \in DOMAIN scheduler.jobs IN
  /\ scheduler' = SchedulerRemoveJob(scheduler, name)
  /\ cronx' = [cronx EXCEPT !.jobHandlers = @ \ {name}]
  /\ jobs' = IF removed /\ ~Closed THEN MapDelete(jobs, name) ELSE jobs
  /\ lastCall' = IF removed /\ Closed
                   THEN CronxCall("unschedule", name, "", FALSE, "StorageError")
                   ELSE CronxCall("unschedule", name, "", removed, "none")
  /\ UNCHANGED <<now, memLocks, sqliteLocks, redisLocks, pgLocks, pgCall, jobRuns, exec, stores>>

RECURSIVE AddAll(_, _, _, _)
\* loadJobsFromStorage: scheduler.addJob for every stored job with a handler
AddAll(s, stored, names, t) ==
  IF names = {} THEN s
  ELSE LET n == CHOOSE n \in names : TRUE
       IN AddAll(SchedulerAddJob(s, n, stored[n].schedule, t), stored, names \ {n}, t)

\* Cronx.start: storage.connect(), loadJobsFromStorage, scheduler.start().
CronxStart ==
  /\ ~cronx.isStarted
  /\ scheduler.nextTimer <= MaxTimers
  /\ cronx' = [cronx EXCEPT !.isStarted = TRUE,
                 !.db = IF cronx.storage # "memory" THEN TRUE ELSE @]
  /\ scheduler' = SchedulerStart(
                    AddAll(scheduler, jobs, DOMAIN jobs \cap cronx.jobHandlers, now), now)
  /\ lastCall' = CronxCall("start", "", "", FALSE, "none")
  /\ UNCHANGED <<now, memLocks, sqliteLocks, redisLocks, pgLocks, pgCall, execVars, stores>>

\* Cronx.stop: scheduler.stop(), storage.disconnect().  The Memory adapter
\* clears its maps; the SQLite adapter closes its database.
CronxStop ==
  /\ cronx.isStarted
  /\ scheduler' = SchedulerStop(scheduler)
  /\ cronx' = [cronx EXCEPT !.isStarted = FALSE, !.db = FALSE]
  /\ IF cronx.storage = "memory"
       THEN jobs' = EmptyMap /\ jobRuns' = EmptyMap /\ memLocks' = EmptyMap
       ELSE UNCHANGED <<jobs, jobRuns, memLocks>>
  /\ lastCall' = CronxCall("stop", "", "", FALSE, "none")
  /\ UNCHANGED <<now, sqliteLocks, redisLocks, pgLocks, pgCall, exec, stores>>

\* The storage calls of start() that can reject on Redis.
StartCalls == {"connect", "listJobs"}

\* Cronx.start in which storage.connect() or, in loadJobsFromStorage,
\* storage.listJobs() throws: the error is logged and thrown again before
\* scheduler.addJob, scheduler.start() and this.isStarted = true.
CronxStartThrows(call) ==
  /\ ~cronx.isStarted
  /\ cronx.storage = "redis"
  /\ cronx' = [cronx EXCEPT !.db = (call = "listJobs")]
  /\ lastCall' = CronxCall("start", "", call, FALSE, "StorageError")
  /\ UNCHANGED <<now, memLocks, sqliteLocks, redisLocks, pgLocks, pgCall, execVars,
                 scheduler, stores>>

\* Cronx.stop in which storage.disconnect() throws (the Redis client is
\* closed already): scheduler.stop() has been called, the error is logged
\* and thrown again before this.isStarted = false.
CronxStopThrows ==
  /\ cronx.isStarted
  /\ cronx.storage = "redis"
  /\ scheduler' = SchedulerStop(scheduler)
  /\ cronx' = [cronx EXCEPT !.db = FALSE]
  /\ lastCall' = CronxCall("stop", "", "disconnect", FALSE, "StorageError")
  /\ UNCHANGED <<now, memLocks, sqliteLocks, redisLocks, pgLocks, pgCall, execVars, stores>>

\* The clock of a Coordinator with armed timers.
CronxClockTick ==
  /\ scheduler.fires < MaxFires
  /\ ExecClockTick

\* ------------------------------------------- jobs and runs in storage
\* The adapters are given the same storage calls: Memory, SQLite and Redis
\* the calls on jobs, Memory, Redis and PostgreSQL the calls on runs.
\* PostgreSQL enforces the foreign key of job_runs; of the SQLite adapter
\* the table jobs alone is kept.  lastCall keeps the call, what each
\* adapter answered and what each held before.

\* lTrim(key, 0, 99): the run ids Redis keeps in a job's list.
RunsKept == 100

\* The Redis list of one job holds at most this many ids.
MaxListLen == 3

\* A limit argument that is not passed (undefined).
NoLimit == -1

\* The limits getJobRuns is called with.
Limits == {NoLimit, 0, 1}

\* `limit ?` : undefined and 0 are falsy.
Truthy(limit) == limit > 0

\* The job schedule() builds at instant t, as saveJob receives it.
NewJob(name, t) ==
  [name |-> name, schedule |-> EveryMinute, isPaused |-> FALSE,
   createdAt |-> t, updatedAt |-> t]

\* A job that does not exist: getJob returns null.
NoJob == [name |-> "", schedule |-> "", isPaused |-> FALSE, createdAt |-> -1, updatedAt |-> -1]

\* The runs saveJobRun is called with: two runs of j1 and one of j2,
\* pending (no startTime), running or completed.
RunJobName(n) == IF n = 3 THEN "j2" ELSE "j1"

\* The startTime of the n-th run once it has started (ms).
RunStart(n) == n * 1000

RunStatuses == {"pending", "running", "completed"}

\* The first run of j1 is saved in every status, its second run when
\* pending and when completed, the run of j2 when completed.
RunInputs == {<<1, s>> : s \in RunStatuses}
               \cup {<<2, "pending">>, <<2, "completed">>, <<3, "completed">>}

StoreRun(n, status) ==
  JobRun(RunId(1, n), RunJobName(n), status, 1,
         IF status = "pending" THEN -1 ELSE RunStart(n),
         IF status = "completed" THEN RunStart(n) + QuickHandler ELSE -1)

\* Array.prototype.slice(0, n) / the first n rows
Take(seq, n) == SubSeq(seq, 1, Min(n, Len(seq)))

\* How many members of seq have the id.
CountId(seq, id) == Cardinality({i \in 1..Len(seq) : seq[i].id = id})

\* -- MemoryStorageAdapter: jobs is the Map name -> Job, runs the entries of
\* the Map id -> JobRun in insertion order.
MemoryStoreNew == [jobs |-> EmptyMap, runs |-> <<>>]

\* this.jobs.set(job.name, { ...job })
MemorySaveJob(m, job) == [m EXCEPT !.jobs = MapSet(@, job.name, job)]

\* MemoryStorageAdapter.pauseJob / resumeJob
MemorySetPaused(m, name, paused, t) ==
  IF name \in DOMAIN m.jobs
    THEN [m EXCEPT !.jobs[name].isPaused = paused, !.jobs[name].updatedAt = t]
    ELSE m

MemorySetPausedRet(m, name) == name \in DOMAIN m.jobs

\* MemoryStorageAdapter.getJob
MemoryGetJob(m, name) == IF name \in DOMAIN m.jobs THEN m.jobs[name] ELSE NoJob

\* MemoryStorageAdapter.deleteJob: return this.jobs.delete(name)
MemoryDeleteJob(m, name) == [m EXCEPT !.jobs = MapDelete(@, name)]

MemoryDeleteJobRet(m, name) == name \in DOMAIN m.jobs

\* Map.set on the entries: an existing key keeps its place.
EntriesSet(entries, run) ==
  IF \E i \in 1..Len(entries) : entries[i].id = run.id
    THEN [i \in 1..Len(entries) |-> IF entries[i].id = run.id THEN run ELSE entries[i]]
    ELSE Append(entries, run)

\* MemoryStorageAdapter.saveJobRun on the entries
MemorySaveRun(m, run) == [m EXCEPT !.runs = EntriesSet(@, run)]

\* MemoryStorageAdapter.getJobRun
MemoryGetJobRun(m, id) ==
  IF \E i \in 1..Len(m.runs) : m.runs[i].id = id
    THEN m.runs[CHOOSE i \in 1..Len(m.runs) : m.runs[i].id = id]
    ELSE NoRun

\* b.startTime?.getTime() || 0
TimeOrZero(run) == IF run.startTime = -1 THEN 0 ELSE run.startTime

RECURSIVE SortByStartDesc(_)
\* Array.prototype.sort with (a, b) => TimeOrZero(b) - TimeOrZero(a): a
\* stable sort, by insertion from the left.
SortByStartDesc(seq) ==
  IF seq = <<>> THEN <<>>
  ELSE LET n == Len(seq)
           done == SortByStartDesc(SubSeq(seq, 1, n - 1))
           x == seq[n]
           k == Cardinality({i \in 1..Len(done) : TimeOrZero(done[i]) >= TimeOrZero(x)})
       IN SubSeq(done, 1, k) \o <<x>> \o SubSeq(done, k + 1, Len(done))

\* MemoryStorageAdapter.getJobRuns
MemoryGetJobRuns(m, jobName, limit) ==
  LET runs == SortByStartDesc(SelectSeq(m.runs, LAMBDA run : run.jobName = jobName))
  IN IF Truthy(limit) THEN Take(runs, limit) ELSE runs

\* -- SQLiteStorageAdapter: the rows of table jobs, is_paused an INTEGER.
SQLiteStoreNew == [jobs |-> EmptyMap]

\* INSERT OR REPLACE INTO jobs
SQLiteSaveJob(s, job) ==
  [s EXCEPT !.jobs = MapSet(@, job.name,
     [name |-> job.name, schedule |-> job.schedule,
      is_paused |-> IF job.isPaused THEN 1 ELSE 0,
      created_at |-> job.createdAt, updated_at |-> job.updatedAt])]

\* UPDATE jobs SET is_paused = ?, updated_at = ? WHERE name = ?
SQLiteSetPaused(s, name, paused, t) ==
  IF name \in DOMAIN s.jobs
    THEN [s EXCEPT !.jobs[name].is_paused = paused, !.jobs[name].updated_at = t]
    ELSE s

\* result.changes > 0
SQLiteSetPausedRet(s, name) == Cardinality({n \in DOMAIN s.jobs : n = name}) > 0

\* SQLiteStorageAdapter.getJob: isPaused: row.is_paused === 1
SQLiteGetJob(s, name) ==
  IF name \in DOMAIN s.jobs
    THEN LET row == s.jobs[name] IN
         [name |-> row.name, schedule |-> row.schedule, isPaused |-> row.is_paused = 1,
          createdAt |-> row.created_at, updatedAt |-> row.updated_at]
    ELSE NoJob

\* DELETE FROM jobs WHERE name = ?
SQLiteDeleteJob(s, name) == [s EXCEPT !.jobs = MapDelete(@, name)]

SQLiteDeleteJobRet(s, name) == name \in DOMAIN s.jobs

\* -- RedisStorageAdapter: jobs holds the hashes cronx:job:<name>, names the
\* set cronx:jobs, runs the hashes cronx:run:<id>, lists the lists
\* cronx:runs:<jobName>.
RedisStoreNew == [jobs |-> EmptyMap, names |-> {}, runs |-> EmptyMap, lists |-> EmptyMap]

\* HSET key field value ...: the fields are set in the hash at key, which
\* is created when absent.
HSet(keys, key, fields) ==
  LET old == IF key \in DOMAIN keys THEN keys[key] ELSE EmptyMap
  IN MapSet(keys, key,
       [f \in (DOMAIN old) \cup (DOMAIN fields) |->
          IF f \in DOMAIN fields THEN fields[f] ELSE old[f]])

\* Boolean.prototype.toString
BoolString(b) == IF b THEN "true" ELSE "false"

\* RedisStorageAdapter.saveJob
RedisSaveJob(r, job) ==
  [r EXCEPT !.jobs = HSet(@, job.name,
                       [name |-> job.name, schedule |-> job.schedule,
                        isPaused |-> BoolString(job.isPaused),
                        createdAt |-> job.createdAt, updatedAt |-> job.updatedAt]),
            !.names = @ \cup {job.name}]

\* RedisStorageAdapter.pauseJob / resumeJob: two hSet calls, return true
RedisSetPaused(r, name, paused, t) ==
  [r EXCEPT !.jobs = HSet(HSet(@, name, [isPaused |-> BoolString(paused)]),
                          name, [updatedAt |-> t])]

RedisSetPausedRet(r, name) == TRUE

\* What getJob answers when it rejects with StorageError.
GetJobThrew == [NoJob EXCEPT !.name = "StorageError"]

\* RedisStorageAdapter.getJob: null for an empty hash; a hash that saveJob
\* did not write lacks its fields, and parsing them throws.
RedisGetJob(r, name) ==
  IF name \notin DOMAIN r.jobs THEN NoJob
  ELSE LET h == r.jobs[name] IN
       IF "name" \notin DOMAIN h THEN GetJobThrew
       ELSE [name |-> h.name, schedule |-> h.schedule, isPaused |-> h.isPaused = "true",
             createdAt |-> h.createdAt, updatedAt |-> h.updatedAt]

\* LRANGE key 0 stop (stop -1 is the last element)
LRange(list, stop) == IF stop = -1 THEN list ELSE Take(list, stop + 1)

\* The list at a key; a key that does not exist reads as the empty list.
ListAt(lists, key) == IF key \in DOMAIN lists THEN lists[key] ELSE <<>>

\* RedisStorageAdapter.deleteJob: the job hash, the name in cronx:jobs, the
\* run hashes the job's list names, and the list.
RedisDeleteJob(r, name) ==
  LET runIds == ListAt(r.lists, name) IN
  [r EXCEPT !.jobs = MapDelete(@, name),
            !.names = @ \ {name},
            !.runs = [id \in (DOMAIN @) \ {runIds[i] : i \in 1..Len(runIds)} |-> @[id]],
            !.lists = MapDelete(@, name)]

\* return deleted > 0
RedisDeleteJobRet(r, name) == name \in DOMAIN r.jobs

\* RedisStorageAdapter.saveJobRun: hSet of the run hash, lPush of the id
\* onto the job's list, lTrim to the first RunsKept.
RedisSaveJobRun(r, run) ==
  [r EXCEPT !.runs = HSet(@, run.id, run),
            !.lists = MapSet(@, run.jobName,
                        Take(<<run.id>> \o ListAt(r.lists, run.jobName), RunsKept))]

\* RedisStorageAdapter.getJobRun
RedisGetJobRun(r, id) == IF id \in DOMAIN r.runs THEN r.runs[id] ELSE NoRun

\* RedisStorageAdapter.getJobRuns: lRange(key, 0, limit ? limit - 1 : -1),
\* then getJobRun of every id, the nulls left out.
RedisGetJobRuns(r, jobName, limit) ==
  LET runIds == LRange(ListAt(r.lists, jobName), IF Truthy(limit) THEN limit - 1 ELSE -1)
      found == SelectSeq(runIds, LAMBDA id : id \in DOMAIN r.runs)
  IN [i \in 1..Len(found) |-> RedisGetJobRun(r, found[i])]

\* -- PostgresStorageAdapter: the names in table jobs and the rows of
\* table job_runs, job_name REFERENCES jobs(name) ON DELETE CASCADE.
PostgresStoreNew == [jobs |-> {}, job_runs |-> EmptyMap]

\* INSERT INTO jobs ... ON CONFLICT (name) DO UPDATE
PostgresSaveJob(p, job) == [p EXCEPT !.jobs = @ \cup {job.name}]

\* DELETE FROM jobs WHERE name = $1, cascading to job_runs
PostgresDeleteJob(p, name) ==
  [p EXCEPT !.jobs = @ \ {name},
            !.job_runs = [id \in {i \in DOMAIN @ : @[i].jobName # name} |-> @[id]]]

\* (result.rowCount || 0) > 0
PostgresDeleteJobRet(p, name) == name \in p.jobs

\* saveJobRun rejects with StorageError when the foreign key fails.
PostgresSaveJobRunThrows(p, run) ==
  run.id \notin DOMAIN p.job_runs /\ run.jobName \notin p.jobs

\* INSERT INTO job_runs ... ON CONFLICT (id) DO UPDATE SET every column
\* but job_name
PostgresSaveJobRun(p, run) ==
  IF PostgresSaveJobRunThrows(p, run) THEN p
  ELSE [p EXCEPT !.job_runs =
          MapSet(@, run.id,
            IF run.id \in DOMAIN p.job_runs
              THEN [run EXCEPT !.jobName = p.job_runs[run.id].jobName]
              ELSE run)]

\* PostgresStorageAdapter.getJobRun
PostgresGetJobRun(p, id) == IF id \in DOMAIN p.job_runs THEN p.job_runs[id] ELSE NoRun

\* ORDER BY start_time DESC in PostgreSQL: NULL sorts as larger than every
\* value, so it comes first.
NullsFirstDesc(a, b) ==
  \/ a.startTime = -1
  \/ b.startTime # -1 /\ a.startTime >= b.startTime

\* The rows of the query in the order of its ORDER BY (rows that compare
\* equal come in some order).
OrderedRows(rows) ==
  CHOOSE seq \in [1..Cardinality(rows) -> rows] :
    /\ \A i, j \in DOMAIN seq : i # j => seq[i] # seq[j]
    /\ \A i, j \in DOMAIN seq : i < j => NullsFirstDesc(seq[i], seq[j])

\* PostgresStorageAdapter.getJobRuns: WHERE job_name = $1 ORDER BY
\* start_time DESC, with LIMIT $2 when `limit` is truthy.
PostgresGetJobRuns(p, jobName, limit) ==
  LET rows == {p.job_runs[id] : id \in {i \in DOMAIN p.job_runs : p.job_runs[i].jobName = jobName}}
      all == OrderedRows(rows)
  IN IF Truthy(limit) THEN Take(all, limit) ELSE all

\* The adapters that keep runs, and those that pause jobs.
RunBackends == {"memory", "redis", "postgres"}

JobBackends == {"memory", "sqlite", "redis"}

\* getJob(name) on adapter b holding s
StoreGetJob(b, s, name) ==
  CASE b = "memory" -> MemoryGetJob(s.memory, name)
    [] b = "sqlite" -> SQLiteGetJob(s.sqlite, name)
    [] b = "redis" -> RedisGetJob(s.redis, name)

\* getJobRun(id) on adapter b holding s
StoreGetJobRun(b, s, id) ==
  CASE b = "memory" -> MemoryGetJobRun(s.memory, id)
    [] b = "redis" -> RedisGetJobRun(s.redis, id)
    [] b = "postgres" -> PostgresGetJobRun(s.postgres, id)

\* getJobRuns(jobName, limit) on adapter b holding s
StoreGetJobRuns(b, s, jobName, limit) ==
  CASE b = "memory" -> MemoryGetJobRuns(s.memory, jobName, limit)
    [] b = "redis" -> RedisGetJobRuns(s.redis, jobName, limit)
    [] b = "postgres" -> PostgresGetJobRuns(s.postgres, jobName, limit)

\* -- the storage calls
StoresNew ==
  [memory |-> MemoryStoreNew, sqlite |-> SQLiteStoreNew,
   redis |-> RedisStoreNew, postgres |-> PostgresStoreNew]

\* What lastCall keeps of a storage call on runs; ret is "threw" for an
\* adapter whose call rejected.
StoreCall(op, jobName, run, limit, ret) ==
  [op |-> op, jobName |-> jobName, run |-> run, limit |-> limit, ret |-> ret]

\* What lastCall keeps of a storage call on a job: also the instant of the
\* call and what each adapter held before it.
JobCall(op, jobName, ret) ==
  [op |-> op, jobName |-> jobName, at |-> now, ret |-> ret, pre |-> stores]

\* storage.saveJob(job)
SaveJob(name) ==
  LET job == NewJob(name, now) IN
  /\ stores' = [memory |-> MemorySaveJob(stores.memory, job),
                sqlite |-> SQLiteSaveJob(stores.sqlite, job),
                redis |-> RedisSaveJob(stores.redis, job),
                postgres |-> PostgresSaveJob(stores.postgres, job)]
  /\ lastCall' = StoreCall("saveJob", name, NoRun, NoLimit, [b \in {} |-> FALSE])
  /\ UNCHANGED <<now, memLocks, sqliteLocks, redisLocks, pgLocks, pgCall, execVars, coordVars>>

\* storage.pauseJob(name) (paused) / storage.resumeJob(name)
SetPaused(name, paused) ==
  /\ stores' = [stores EXCEPT
       !.memory = MemorySetPaused(@, name, paused, now),
       !.sqlite = SQLiteSetPaused(@, name, IF paused THEN 1 ELSE 0, now),
       !.redis = RedisSetPaused(@, name, paused, now)]
  /\ lastCall' = JobCall(IF paused THEN "pauseJob" ELSE "resumeJob", name,
                   [memory |-> MemorySetPausedRet(stores.memory, name),
                    sqlite |-> SQLiteSetPausedRet(stores.sqlite, name),
                    redis |-> RedisSetPausedRet(stores.redis, name)])
  /\ UNCHANGED <<now, memLocks, sqliteLocks, redisLocks, pgLocks, pgCall, execVars, coordVars>>

\* storage.deleteJob(name)
DeleteJob(name) ==
  /\ stores' = [memory |-> MemoryDeleteJob(stores.memory, name),
                sqlite |-> SQLiteDeleteJob(stores.sqlite, name),
                redis |-> RedisDeleteJob(stores.redis, name),
                postgres |-> PostgresDeleteJob(stores.postgres, name)]
  /\ lastCall' = StoreCall("deleteJob", name, NoRun, NoLimit,
                   [memory |-> MemoryDeleteJobRet(stores.memory, name),
                    sqlite |-> SQLiteDeleteJobRet(stores.sqlite, name),
                    redis |-> RedisDeleteJobRet(stores.redis, name),
                    postgres |-> PostgresDeleteJobRet(stores.postgres, name)])
  /\ UNCHANGED <<now, memLocks, sqliteLocks, redisLocks, pgLocks, pgCall, execVars, coordVars>>

\* storage.saveJobRun(run), run being the n-th run in the given status
SaveJobRun(n, status) ==
  LET run == StoreRun(n, status) IN
  /\ Len(ListAt(stores.redis.lists, run.jobName)) < MaxListLen
  /\ stores' = [stores EXCEPT
       !.memory = MemorySaveRun(@, run),
       !.redis = RedisSaveJobRun(@, run),
       !.postgres = PostgresSaveJobRun(@, run)]
  /\ lastCall' = StoreCall("saveJobRun", run.jobName, run, NoLimit,
                   [memory |-> "ok", redis |-> "ok",
                    postgres |-> IF PostgresSaveJobRunThrows(stores.postgres, run)
                                   THEN "threw" ELSE "ok"])
  /\ UNCHANGED <<now, memLocks, sqliteLocks, redisLocks, pgLocks, pgCall, execVars, coordVars>>

\* storage.getJobRuns(jobName, limit)
GetJobRuns(jobName, limit) ==
  /\ lastCall' = StoreCall("getJobRuns", jobName, NoRun, limit,
                   [b \in RunBackends |-> StoreGetJobRuns(b, stores, jobName, limit)])
  /\ UNCHANGED stores
  /\ UNCHANGED <<now, memLocks, sqliteLocks, redisLocks, pgLocks, pgCall, execVars, coordVars>>

\* The clock advances between storage calls.
StoreClockTick ==
  /\ now + ClockStep <= MaxTicks * ClockStep
  /\ now' = now + ClockStep
  /\ UNCHANGED <<memLocks, sqliteLocks, redisLocks, pgLocks, pgCall, lastCall, execVars, coordVars, stores>>

\* ------------------------------------------------------ specifications

LockInit ==
  /\ now = 0
  /\ memLocks = EmptyMap
  /\ sqliteLocks = EmptyMap
  /\ redisLocks = EmptyMap
  /\ pgLocks = EmptyMap
  /\ pgCall = [w \in Workers |-> PgIdle]
  /\ lastCall = NoCall

\* No job registered, no execution.
ExecNone ==
  /\ jobs = EmptyMap
  /\ jobRuns = EmptyMap
  /\ exec = [e \in Execs |-> ExecIdle]
  /\ cronx = CronxNew("memory")
  /\ scheduler = SchedulerNew
  /\ stores = StoresNew

vars == <<lockVars, execVars, coordVars, stores>>

\* The lock protocol on Memory, SQLite and Redis.
InitLock == LockInit /\ ExecNone

NextLock ==
  \/ \E j \in Jobs, w \in Workers, ttl \in TTLs : AcquireLock(j, w, ttl)
  \/ \E j \in Jobs, w \in Workers : ReleaseLock(j, w)
  \/ \E j \in Jobs, w \in Workers, ttl \in TTLs : ExtendLock(j, w, ttl)
  \/ ClockTick

SpecLock == InitLock /\ [][NextLock]_vars

\* Concurrent acquireLock calls on PostgreSQL.
InitPg == LockInit /\ ExecNone

NextPg ==
  \/ \E j \in Jobs, w \in Workers : PgAcquireBegin(j, w)
  \/ \E w \in Workers : PgAcquireDelete(w)
  \/ \E w \in Workers : PgAcquireInsert(w)
  \/ PgClockTick

SpecPg == InitPg /\ [][NextPg]_vars

\* Executions of one job, registered by schedule() with some options.
InitExec ==
  /\ LockInit
  /\ \E r \in 0..MaxRetries, b \in {"fixed", "exponential"} :
       jobs = MapSet(EmptyMap, JobName, Job(JobName, FALSE, r, b))
  /\ jobRuns = EmptyMap
  /\ exec = [e \in Execs |-> ExecIdle]
  /\ cronx = CronxNew("memory")
  /\ scheduler = SchedulerNew
  /\ stores = StoresNew

NextExec ==
  \/ \E e \in Execs, w \in Workers : RunJob(e, w, JobName)
  \/ \E e \in Execs : ExecuteJob(e)
  \/ \E e \in Execs : SavePending(e)
  \/ \E e \in Execs : StartAttempt(e)
  \/ \E e \in Execs : HandlerSettles(e)
  \/ \E e \in Execs : ReturnRun(e)
  \/ \E e \in Execs : AfterFailure(e)
  \/ \E e \in Execs : Wake(e)
  \/ \E e \in Execs : ReleaseJobLock(e)
  \/ \E e \in Execs : LockExtender(e)
  \/ PauseJob(JobName)
  \/ ResumeJob(JobName)
  \/ ExecClockTick

SpecExec == InitExec /\ [][NextExec]_vars

\* One execution of a job whose options have a timeout and callbacks.
CallbackKinds == {"none", "ok", "throws"}

InitHandler ==
  /\ LockInit
  /\ \E r \in 0..MaxRetries, b \in {"fixed", "exponential"},
        t \in {0, JobTimeout}, s \in CallbackKinds, f \in CallbackKinds :
       jobs = MapSet(EmptyMap, JobName,
                [Job(JobName, FALSE, r, b) EXCEPT !.timeout = t, !.onSuccess = s,
                                                 !.onError = f])
  /\ jobRuns = EmptyMap
  /\ exec = [e \in Execs |-> ExecIdle]
  /\ cronx = CronxNew("memory")
  /\ scheduler = SchedulerNew
  /\ stores = StoresNew

NextHandler ==
  \/ RunJob(1, "w1", JobName)
  \/ ExecuteJob(1)
  \/ SavePending(1)
  \/ StartAttempt(1)
  \/ HandlerSettles(1)
  \/ ReturnRun(1)
  \/ AfterFailure(1)
  \/ Wake(1)
  \/ ReleaseJobLock(1)
  \/ LockExtender(1)
  \/ StrayHandlerSettles(1)
  \/ ExecClockTick

SpecHandler == InitHandler /\ [][NextHandler]_vars

\* Executions of one job without retries by two workers, with pause and
\* resume: the ways executeJob returns without running the handler.
InitSkip ==
  /\ LockInit
  /\ jobs = MapSet(EmptyMap, JobName, Job(JobName, FALSE, 0, "fixed"))
  /\ jobRuns = EmptyMap
  /\ exec = [e \in Execs |-> ExecIdle]
  /\ cronx = CronxNew("memory")
  /\ scheduler = SchedulerNew
  /\ stores = StoresNew

NextSkip ==
  \/ \E e \in Execs, w \in Workers : RunJob(e, w, JobName)
  \/ \E e \in Execs : ExecuteJob(e)
  \/ \E e \in Execs : SavePending(e)
  \/ \E e \in Execs : StartAttempt(e)
  \/ \E e \in Execs : HandlerSettles(e)
  \/ \E e \in Execs : ReturnRun(e)
  \/ \E e \in Execs : AfterFailure(e)
  \/ \E e \in Execs : ReleaseJobLock(e)
  \/ \E e \in Execs : LockExtender(e)
  \/ PauseJob(JobName)
  \/ ResumeJob(JobName)
  \/ ExecClockTick

SpecSkip == InitSkip /\ [][NextSkip]_vars

\* A Coordinator on Memory or SQLite: its lifecycle, its Scheduler, and one
\* execution, started by runJob, of a job scheduled with retries: 1.
InitCronx ==
  /\ LockInit
  /\ jobs = EmptyMap
  /\ jobRuns = EmptyMap
  /\ exec = [e \in Execs |-> ExecIdle]
  /\ \E k \in StorageKinds : cronx = CronxNew(k)
  /\ scheduler = SchedulerNew
  /\ stores = StoresNew

NextCronx ==
  \/ CronxSchedule(JobName, EveryMinute, 1)
  \/ CronxUnschedule(JobName)
  \/ CronxStart
  \/ CronxStop
  \/ TimerFires
  \/ RunJob(1, "w1", JobName)
  \/ ExecuteJob(1)
  \/ SavePending(1)
  \/ StartAttempt(1)
  \/ HandlerSettles(1)
  \/ CatchSave(1)
  \/ ReturnRun(1)
  \/ AfterFailure(1)
  \/ Wake(1)
  \/ ReleaseJobLock(1)
  \/ LockExtender(1)
  \/ CronxClockTick

SpecCronx == InitCronx /\ [][NextCronx]_vars

\* A Coordinator on Memory or SQLite whose schedule() is called with and
\* without a name and with both cron expressions: its lifecycle and its
\* Scheduler.
NextRegistry ==
  \/ \E n \in {JobName, ""}, s \in Schedules : CronxSchedule(n, s, 0)
  \/ CronxUnschedule(JobName)
  \/ CronxStart
  \/ CronxStop
  \/ TimerFires
  \/ CronxClockTick

SpecRegistry == InitCronx /\ [][NextRegistry]_vars

\* A Coordinator on Redis whose start() and stop() can fail in their
\* storage calls: its lifecycle and its Scheduler.
InitLifecycle ==
  /\ LockInit
  /\ jobs = EmptyMap
  /\ jobRuns = EmptyMap
  /\ exec = [e \in Execs |-> ExecIdle]
  /\ cronx = CronxNew("redis")
  /\ scheduler = SchedulerNew
  /\ stores = StoresNew

NextLifecycle ==
  \/ CronxSchedule(JobName, EveryMinute, 0)
  \/ CronxStart
  \/ \E call \in StartCalls : CronxStartThrows(call)
  \/ CronxStop
  \/ CronxStopThrows
  \/ TimerFires
  \/ CronxClockTick

SpecLifecycle == InitLifecycle /\ [][NextLifecycle]_vars

\* A Coordinator on Memory or SQLite after start() and schedule() of a job
\* with timeout: JobTimeout and retries: 1: one execution started by
\* runJob, while stop() and start() are called.
InitTimeout ==
  /\ LockInit
  /\ jobs = MapSet(EmptyMap, JobName,
               [Job(JobName, FALSE, 1, "fixed") EXCEPT !.timeout = JobTimeout])
  /\ jobRuns = EmptyMap
  /\ exec = [e \in Execs |-> ExecIdle]
  /\ \E k \in StorageKinds :
       cronx = [CronxNew(k) EXCEPT !.isStarted = TRUE, !.db = (k # "memory"),
                                   !.jobHandlers = {JobName}]
  /\ scheduler = SchedulerAddJob(SchedulerStart(SchedulerNew, 0), JobName, EveryMinute, 0)
  /\ stores = StoresNew

NextTimeout ==
  \/ RunJob(1, "w1", JobName)
  \/ ExecuteJob(1)
  \/ SavePending(1)
  \/ StartAttempt(1)
  \/ HandlerSettles(1)
  \/ CatchSave(1)
  \/ ReturnRun(1)
  \/ AfterFailure(1)
  \/ Wake(1)
  \/ ReleaseJobLock(1)
  \/ LockExtender(1)
  \/ StrayHandlerSettles(1)
  \/ CronxStop
  \/ CronxStart
  \/ TimerFires
  \/ CronxClockTick

SpecTimeout == InitTimeout /\ [][NextTimeout]_vars

\* A Coordinator on Memory whose job, without retries, is scheduled, paused,
\* resumed and run by hand while its timer is armed.
InitManual ==
  /\ LockInit
  /\ jobs = EmptyMap
  /\ jobRuns = EmptyMap
  /\ exec = [e \in Execs |-> ExecIdle]
  /\ cronx = CronxNew("memory")
  /\ scheduler = SchedulerNew
  /\ stores = StoresNew

NextManual ==
  \/ CronxSchedule(JobName, EveryMinute, 0)
  \/ CronxStart
  \/ TimerFires
  \/ PauseJob(JobName)
  \/ ResumeJob(JobName)
  \/ RunJob(1, "w1", JobName)
  \/ ExecuteJob(1)
  \/ SavePending(1)
  \/ StartAttempt(1)
  \/ HandlerSettles(1)
  \/ ReturnRun(1)
  \/ AfterFailure(1)
  \/ ReleaseJobLock(1)
  \/ LockExtender(1)
  \/ CronxClockTick

SpecManual == InitManual /\ [][NextManual]_vars

\* The storage calls on jobs and runs, on every adapter.
InitStore == LockInit /\ ExecNone

NextStore ==
  \/ \E n \in Jobs : SaveJob(n)
  \/ DeleteJob(JobName)
  \/ \E in \in RunInputs : SaveJobRun(in[1], in[2])
  \/ \E n \in Jobs, l \in Limits : GetJobRuns(n, l)

SpecStore == InitStore /\ [][NextStore]_vars

\* Pausing and resuming a stored or absent job as the clock advances.
NextPause ==
  \/ SaveJob(JobName)
  \/ DeleteJob(JobName)
  \/ \E p \in BOOLEAN : SetPaused(JobName, p)
  \/ StoreClockTick

SpecPause == InitStore /\ [][NextPause]_vars

\* The backoff delay of every strategy and attempt.
InitBackoff == LockInit /\ ExecNone

NextBackoff == \E b \in BackoffOptions, a \in 1..MaxAttempt : Calculate(b, a)

SpecBackoff == InitBackoff /\ [][NextBackoff]_vars

\* ------------------------------------------- claims: the lock protocol

\* The job's record is the same in both tables (present with the same
\* fields, or absent from both).
SameRecord(pre, post, jobName) ==
  /\ (jobName \in DOMAIN post) = (jobName \in DOMAIN pre)
  /\ jobName \in DOMAIN pre => post[jobName] = pre[jobName]

\* The worker holding a live lock on the job, if any.
Holder(locks, jobName) ==
  IF jobName \in DOMAIN locks /\ locks[jobName].expiresAt > now
    THEN {locks[jobName].workerId}
    ELSE {}

\* C3: two overlapping acquireLock calls by different workers on a job that
\* had no lock record when either began do not both return true.
C3_AtomicAcquire ==
  \A w1, w2 \in Workers :
    ~ /\ w1 # w2
      /\ pgCall[w1].pc = "returned" /\ pgCall[w1].ret /\ pgCall[w1].noPrior
      /\ pgCall[w2].pc = "returned" /\ pgCall[w2].ret /\ pgCall[w2].noPrior
      /\ pgCall[w1].jobName = pgCall[w2].jobName
      /\ w1 \in pgCall[w2].concurrent

\* C4: acquireLock returns true exactly when the job has no record, or its
\* record has expiresAt <= now, or its record is the caller's; when it
\* returns false the job's record is unchanged.
C4_AcquireIff ==
  lastCall.op = "acquireLock" =>
    \A b \in Backends :
      LET pre == lastCall.pre[b]
          j == lastCall.jobName
          free == \/ j \notin DOMAIN pre
                  \/ pre[j].expiresAt <= lastCall.at
                  \/ pre[j].workerId = lastCall.workerId
      IN /\ lastCall.ret[b] = free
         /\ ~lastCall.ret[b] => SameRecord(pre, CurrentLocks(b), j)

\* C5: whenever acquireLock returns true, the job's record afterwards has
\* workerId = caller and expiresAt = now + ttl.
C5_AcquireStores ==
  lastCall.op = "acquireLock" =>
    \A b \in Backends :
      lastCall.ret[b] =>
        /\ lastCall.jobName \in DOMAIN CurrentLocks(b)
        /\ CurrentLocks(b)[lastCall.jobName]
             = LockInfo(lastCall.workerId, lastCall.at + lastCall.ttl)

\* C6: an acquireLock by another worker, made at or after the instant the
\* record of the job expires, returns true and makes the caller the owner
\* (Memory and SQLite, which keep the record of a lock nobody released).
C6_TTLRecovery ==
  lastCall.op = "acquireLock" =>
    \A b \in {"memory", "sqlite"} :
      LET pre == lastCall.pre[b]
          j == lastCall.jobName
      IN (/\ j \in DOMAIN pre
          /\ pre[j].workerId # lastCall.workerId
          /\ lastCall.at >= pre[j].expiresAt)
         => /\ lastCall.ret[b]
            /\ j \in DOMAIN CurrentLocks(b)
            /\ CurrentLocks(b)[j].workerId = lastCall.workerId

\* C7: releaseLock returns true exactly when the job's record is the
\* caller's, and then removes that record and nothing else; otherwise
\* (another owner, or no record) it leaves every lock record as it was.
C7_ReleaseOnlyByOwner ==
  lastCall.op = "releaseLock" =>
    \A b \in Backends :
      LET pre == lastCall.pre[b]
          j == lastCall.jobName
          owned == j \in DOMAIN pre /\ pre[j].workerId = lastCall.workerId
      IN /\ lastCall.ret[b] = owned
         /\ CurrentLocks(b) = IF owned THEN MapDelete(pre, j) ELSE pre

\* C7 witness: a worker releases a job whose record another worker owns on
\* every backend, after the time of one TTL has passed.
C7_Witness ==
  /\ lastCall.op = "releaseLock"
  /\ lastCall.at >= lockTTL
  /\ \A b \in Backends :
       /\ lastCall.jobName \in DOMAIN lastCall.pre[b]
       /\ lastCall.pre[b][lastCall.jobName].workerId # lastCall.workerId
       /\ ~lastCall.ret[b]
       /\ lastCall.jobName \in DOMAIN CurrentLocks(b)

\* C8: extendLock returns true exactly when the job's record is the
\* caller's, and then sets its expiresAt to now + ttl; otherwise it leaves
\* every lock record as it was.
C8_ExtendOnlyByOwner ==
  lastCall.op = "extendLock" =>
    \A b \in Backends :
      LET pre == lastCall.pre[b]
          j == lastCall.jobName
          owned == j \in DOMAIN pre /\ pre[j].workerId = lastCall.workerId
      IN /\ lastCall.ret[b] = owned
         /\ CurrentLocks(b) =
              IF owned
                THEN MapSet(pre, j, LockInfo(lastCall.workerId, lastCall.at + lastCall.ttl))
                ELSE pre

\* C8 witness: a worker extends a job whose record another worker took
\* after the time of one TTL had passed; every backend answers false.
C8_Witness ==
  /\ lastCall.op = "extendLock"
  /\ lastCall.at >= lockTTL
  /\ \A b \in Backends :
       /\ lastCall.jobName \in DOMAIN lastCall.pre[b]
       /\ lastCall.pre[b][lastCall.jobName].workerId # lastCall.workerId
       /\ lastCall.pre[b][lastCall.jobName].expiresAt > lockTTL
       /\ ~lastCall.ret[b]

\* C9: Memory and Redis return the same boolean at every call and agree on
\* the worker holding a live lock on each job.
C9_BackendsEquivalent ==
  /\ lastCall.ret.memory = lastCall.ret.redis
  /\ \A j \in Jobs : Holder(memLocks, j) = Holder(redisLocks, j)

\* --------------------------------------------- claims: the executor

\* Execution e is between its successful acquireLock and its releaseLock.
Inside(e) == exec[e].pc \in InsidePcs

\* The JobRun records in storage written by execution e.
RunsOf(e) == {id \in DOMAIN jobRuns : id.exec = e}

\* C1: no two Coordinators with distinct worker ids are inside an execution
\* of the same job at the same moment.
C1_MutualExclusion ==
  \A e1, e2 \in Execs :
    ~ /\ e1 # e2
      /\ Inside(e1) /\ Inside(e2)
      /\ exec[e1].workerId # exec[e2].workerId
      /\ exec[e1].job.name = exec[e2].job.name

\* C2: while an execution is in flight on a worker (and that worker runs no
\* other execution of the job), the job's lock record is that worker's and
\* has expiresAt > now.
C2_LockKeptAlive ==
  \A e \in Execs :
    (/\ Inside(e)
     /\ \A f \in Execs \ {e} : exec[f].workerId # exec[e].workerId)
    => /\ exec[e].job.name \in DOMAIN memLocks
       /\ memLocks[exec[e].job.name].workerId = exec[e].workerId
       /\ memLocks[exec[e].job.name].expiresAt > now

\* C10: an executeJob call that has returned or thrown left between 1 and
\* retries + 1 JobRun records in storage.
C10_RunCount ==
  \A e \in Execs :
    exec[e].pc = "done" =>
      /\ Cardinality(RunsOf(e)) >= 1
      /\ Cardinality(RunsOf(e)) <= exec[e].job.retries + 1

\* The stored runs of execution e with the given status.
RunsWith(e, status) == {id \in RunsOf(e) : jobRuns[id].status = status}

\* C11: an execution that acquired the lock throws JobExecutionError exactly
\* when all retries + 1 attempts failed, after the last of them; when
\* attempt k succeeds it returns the completed run with attempt = k, all
\* attempts before it failed, and no further attempt is made.
C11_RetryContract ==
  \A e \in Execs :
    LET x == exec[e]
        R == x.job.retries
        failed == RunsWith(e, "failed")
    IN
    /\ x.outcome = "threw" =>
         /\ Cardinality(failed) = R + 1
         /\ RunsOf(e) = failed
         /\ x.run.attempt = R + 1
         /\ x.pc \in {"release", "done"}
    /\ Cardinality(failed) = R + 1 =>
         \/ x.pc = "failed" /\ x.attempt = R + 1
         \/ x.outcome = "threw"
    /\ x.outcome = "completed" =>
         /\ x.run.status = "completed"
         /\ x.run.id \in RunsOf(e) /\ jobRuns[x.run.id] = x.run
         /\ x.run.attempt <= R + 1
         /\ Cardinality(RunsOf(e)) = x.run.attempt
         /\ RunsOf(e) \ {x.run.id} = failed
         /\ x.pc \in {"release", "done"}

\* C11 witness: an execution with retries >= 1 has thrown after its last
\* attempt and returned.
C11_Witness ==
  \E e \in Execs :
    /\ exec[e].pc = "done" /\ exec[e].outcome = "threw"
    /\ exec[e].job.retries >= 1
    /\ Cardinality(RunsWith(e, "failed")) = exec[e].job.retries + 1

\* C15: an attempt whose handler has not settled when options.timeout
\* elapses ends at startTime + timeout with a failed run stored with a
\* timed-out error; the attempt after a timed-out one starts its backoff
\* delay after that instant, whether or not the handler has finished.
C15_Timeout ==
  \A e \in Execs :
    LET x == exec[e]
        late == x.job.timeout # 0 /\ x.duration > x.job.timeout
    IN
    /\ (x.pc = "handler" /\ late) => x.until = x.run.startTime + x.job.timeout
    /\ (x.pc \in {"completed", "failed"} /\ late) =>
         /\ x.pc = "failed"
         /\ x.run.status = "failed" /\ x.run.error = "timed out"
         /\ x.run.endTime = x.run.startTime + x.job.timeout
         /\ x.run.id \in RunsOf(e) /\ jobRuns[x.run.id] = x.run
    /\ \A r1, r2 \in RunsOf(e) :
         (/\ jobRuns[r1].error = "timed out"
          /\ jobRuns[r2].attempt = jobRuns[r1].attempt + 1)
         => jobRuns[r2].startTime
              = jobRuns[r1].endTime + BackoffDelay(x.job.backoff, jobRuns[r1].attempt)

\* C15 witness: the second attempt is running while the handler of the
\* first, which timed out, has not finished yet.
C15_Witness ==
  \E e \in Execs :
    /\ exec[e].pc = "handler" /\ exec[e].attempt = 2
    /\ \E s \in exec[e].stray : s > now
    /\ \E r \in RunsOf(e) : jobRuns[r].attempt = 1 /\ jobRuns[r].error = "timed out"

\* C16: for a job whose onSuccess or onError throws, the outcome is that of
\* the handler alone: a stored completed run stays completed and ends the
\* execution without an error and without a retry; a failed attempt is
\* followed by the next one until retries + 1 have failed, and only then
\* JobExecutionError, and no other error, is raised.
C16_CallbacksSwallowed ==
  \A e \in Execs :
    LET x == exec[e]
        R == x.job.retries
        completed == RunsWith(e, "completed")
        failed == RunsWith(e, "failed")
    IN
    (x.job.onSuccess = "throws" \/ x.job.onError = "throws") =>
      /\ x.outcome # "threwCallback"
      /\ \A id \in RunsOf(e) : jobRuns[id].error # "callback"
      /\ completed # {} =>
           /\ x.pc \in {"completed", "release", "done"}
           /\ completed = {x.run.id}
           /\ Cardinality(failed) = x.run.attempt - 1
           /\ x.pc = "done" => x.outcome = "completed"
      /\ (x.pc = "done" /\ completed = {} /\ RunsOf(e) # {}) =>
           /\ x.outcome = "threw"
           /\ Cardinality(failed) = R + 1

\* C16 witness: both callbacks throw; the first attempt failed, the second
\* completed and the execution has returned.
C16_Witness ==
  \E e \in Execs :
    /\ exec[e].job.onSuccess = "throws" /\ exec[e].job.onError = "throws"
    /\ exec[e].pc = "done" /\ exec[e].outcome = "completed"
    /\ exec[e].run.attempt = 2

\* C12: while a job is paused in storage no execution invokes its handler
\* for a further attempt: a handler invocation made while the job is paused
\* is the first attempt of an execution (one whose runJob read the job
\* before the pause took effect), never a retry.
C12_PauseSuppresses ==
  [][\A e \in Execs :
       (/\ exec[e].pc = "retries" /\ exec'[e].pc = "handler"
        /\ exec[e].job.name \in DOMAIN jobs
        /\ jobs[exec[e].job.name].isPaused)
       => exec[e].attempt = 1]_vars

\* C13: executeJob on a job read as paused returns at once a run with status
\* completed and attempt 1, marked skipped, without a storage call: every
\* lock table and the stored runs are unchanged, and the handler is not
\* invoked.
C13_PausedSkips ==
  [][\A e \in Execs :
       (exec[e].pc = "got" /\ exec[e].job.isPaused /\ exec'[e] # exec[e])
       => /\ exec'[e].pc = "done"
          /\ exec'[e].outcome = "skippedPaused"
          /\ exec'[e].run.status = "completed" /\ exec'[e].run.attempt = 1
          /\ exec'[e].run.jobName = exec[e].job.name
          /\ exec'[e].extAt = -1
          /\ <<memLocks, sqliteLocks, redisLocks, pgLocks>>'
               = <<memLocks, sqliteLocks, redisLocks, pgLocks>>
          /\ jobRuns' = jobRuns]_vars

\* C13 witness: an execution of the paused job has returned the skipped run
\* while another worker holds the job's lock.
C13_Witness ==
  \E e \in Execs :
    /\ exec[e].pc = "done" /\ exec[e].outcome = "skippedPaused"
    /\ RunsOf(e) = {}
    /\ exec[e].job.name \in DOMAIN memLocks
    /\ memLocks[exec[e].job.name].workerId # exec[e].workerId

\* C14: when acquireLock returns false, executeJob returns at once a run
\* with status completed marked skipped and does not throw; it makes no
\* further call (no handler, no releaseLock, no extendLock), so the lock
\* table and the stored runs are as before.
C14_LockedSkips ==
  [][\A e \in Execs :
       (/\ exec[e].pc = "got" /\ ~exec[e].job.isPaused /\ exec'[e] # exec[e]
        /\ ~MemoryAcquireRet(memLocks, exec[e].job.name, exec[e].workerId, now))
       => /\ exec'[e].pc = "done"
          /\ exec'[e].outcome = "skippedLocked"
          /\ exec'[e].run.status = "completed" /\ exec'[e].run.attempt = 1
          /\ exec'[e].extAt = -1
          /\ memLocks' = memLocks
          /\ jobRuns' = jobRuns]_vars

\* C14 witness: an execution has returned the skipped run while the other
\* worker, still inside its execution, holds the live lock.
C14_Witness ==
  \E e, f \in Execs :
    /\ exec[e].pc = "done" /\ exec[e].outcome = "skippedLocked"
    /\ Inside(f) /\ exec[f].workerId # exec[e].workerId
    /\ exec[e].job.name \in DOMAIN memLocks
    /\ memLocks[exec[e].job.name].workerId = exec[f].workerId
    /\ memLocks[exec[e].job.name].expiresAt > now

\* --------------------------------------------- claims: the Coordinator

\* C17: every timer expiry in a running Scheduler starts an execution of
\* the job by the Executor and arms a new timer for the job.
C17_FireExecutes ==
  [][\A t \in scheduler.armed :
       (/\ scheduler'.fires = scheduler.fires + 1
        /\ t \notin scheduler'.armed
        /\ scheduler.isRunning /\ t.name \in DOMAIN scheduler.jobs)
       => /\ \E u \in scheduler'.armed \ scheduler.armed :
               u.name = t.name /\ u.at > now
          /\ \E e \in Execs :
               /\ exec[e].pc = "idle" /\ exec'[e].pc # "idle"
               /\ exec'[e].job.name = t.name]_vars

\* C18: a job that is not in the Scheduler (removed by unschedule and not
\* scheduled again) does not fire, whatever calls came before.
C18_RemovedNeverFires ==
  [][\A t \in scheduler.armed :
       (scheduler'.fires = scheduler.fires + 1 /\ t \notin scheduler'.armed)
       => t.name \in DOMAIN scheduler.jobs]_vars

\* C19: while the Scheduler is stopped no timer is armed, whatever calls
\* came before.
C19_StoppedNoTimers == ~scheduler.isRunning => scheduler.armed = {}

\* C20: an execution that has entered the Executor runs to completion also
\* when Cronx.stop() is called meanwhile: the step in which its handler
\* settles stores a terminal (completed or failed) run for the attempt, and
\* after its releaseJobLock the job's lock record is not the worker's.
C20_InFlightCompletes ==
  [][\A e \in Execs :
       /\ (exec[e].pc = "handler" /\ exec'[e].pc # "handler") =>
            /\ exec'[e].run.id \in DOMAIN jobRuns'
            /\ jobRuns'[exec'[e].run.id].status \in {"completed", "failed"}
            /\ jobRuns'[exec'[e].run.id].attempt = exec[e].attempt
       /\ (exec[e].pc = "release" /\ exec'[e].pc = "done") =>
            ~ /\ exec[e].job.name \in DOMAIN StorageLocks'
              /\ StorageLocks'[exec[e].job.name].workerId = exec[e].workerId]_vars

\* C29: the delay after failed attempt a is 1000 ms for backoff fixed,
\* unset or unknown, and min(1000 * 2^(a-1), 30000) ms for exponential; the
\* first retry waits 1000 ms, and the exponential delays are non-decreasing
\* in a and never exceed 30000 ms.
C29_BackoffDelays ==
  lastCall.op = "calculate" =>
    LET a == lastCall.attempt
        doubled == 1000 * 2^(a - 1)
    IN
    /\ lastCall.strategy # "exponential" => lastCall.ret = 1000
    /\ lastCall.strategy = "exponential" =>
         /\ lastCall.ret = IF doubled <= 30000 THEN doubled ELSE 30000
         /\ lastCall.ret <= 30000
         /\ (lastCall.prev.strategy = "exponential" /\ lastCall.prev.attempt <= a)
              => lastCall.prev.ret <= lastCall.ret
    /\ a = 1 => lastCall.ret = 1000

\* C29 witness: an exponential delay that is clamped to the maximum follows
\* one that is not.
C29_Witness ==
  /\ lastCall.op = "calculate"
  /\ lastCall.strategy = "exponential" /\ lastCall.prev.strategy = "exponential"
  /\ lastCall.prev.attempt < lastCall.attempt
  /\ lastCall.prev.ret < lastCall.ret
  /\ lastCall.ret = maxDelay
  /\ 1000 * 2^(lastCall.attempt - 1) > 30000

\* C21: no step of a manual run - runJob's lookup and every step of the
\* execution it starts, whether it completes, fails or is skipped - changes
\* the Scheduler's armed timers or the job's nextRun.
C21_RunJobLeavesScheduler ==
  [][exec'[1] # exec[1]
       => /\ scheduler'.armed = scheduler.armed
          /\ scheduler'.nextRun = scheduler.nextRun
          /\ scheduler'.timers = scheduler.timers]_vars

\* A manual run has completed while the job's timer is armed.
C21_Witness ==
  /\ exec[1].pc = "done" /\ exec[1].outcome = "completed"
  /\ JobName \in DOMAIN scheduler.nextRun
  /\ \E t \in scheduler.armed : t.name = JobName /\ t.at = scheduler.nextRun[JobName]

\* C22: every job with an armed timer in the Scheduler has a handler in the
\* Coordinator's handler table, and after start() a stored job without a
\* handler is still stored and has no armed timer.
C22_ArmedHaveHandlers ==
  /\ \A t \in scheduler.armed : t.name \in cronx.jobHandlers
  /\ (lastCall.op = "start" /\ JobName \in DOMAIN jobs /\ JobName \notin cronx.jobHandlers)
       => \A t \in scheduler.armed : t.name # JobName

\* C23: a schedule() call without a name throws the configuration error
\* (CronxError), one with a name and a cron expression that does not parse
\* throws an error too, and neither call changes the stored jobs, the
\* handler table or the Scheduler.
C23_ScheduleValidates ==
  [][\A n \in {JobName, ""}, s \in Schedules :
       (CronxSchedule(n, s, 0) /\ (n = "" \/ ~Parses(s)))
       => /\ IF n = "" THEN lastCall'.threw = "CronxError"
                       ELSE lastCall'.threw # "none"
          /\ jobs' = jobs
          /\ cronx'.jobHandlers = cronx.jobHandlers
          /\ scheduler' = scheduler]_vars

\* C24: when unschedule(name) returns on a connected storage, the job is in
\* neither the Scheduler, the handler table nor storage, also when it was
\* stored without being in the Scheduler.
C24_UnscheduleRemovesAll ==
  [][(CronxUnschedule(JobName) /\ ~Closed /\ lastCall'.threw = "none")
       => /\ JobName \notin DOMAIN scheduler'.jobs
          /\ JobName \notin cronx'.jobHandlers
          /\ JobName \notin DOMAIN jobs']_vars

\* C30: in a started Coordinator a job whose handler schedule() registered
\* with a cron expression that parses, before or after start(), has an
\* armed timer.
C30_RegisteredIsArmed ==
  (/\ cronx.isStarted
   /\ JobName \in cronx.jobHandlers
   /\ JobName \in DOMAIN jobs => Parses(jobs[JobName].schedule)
   /\ JobName \in DOMAIN scheduler.jobs => Parses(scheduler.jobs[JobName]))
  => \E t \in scheduler.armed : t.name = JobName

\* C25: after deleteJob(name) returned true on an adapter, getJobRuns(name)
\* on that adapter returns no run.
C25_CascadeDelete ==
  lastCall.op = "deleteJob" =>
    \A b \in RunBackends :
      lastCall.ret[b] => Len(StoreGetJobRuns(b, stores, lastCall.jobName, NoLimit)) = 0

\* C26: on Memory, SQLite and Redis, pauseJob(name) and resumeJob(name)
\* return true exactly when a job named name was stored; then the job
\* afterwards differs from the job before in isPaused and updatedAt only,
\* and otherwise nothing is stored under the name.
C26_PauseResume ==
  lastCall.op \in {"pauseJob", "resumeJob"} =>
    \A b \in JobBackends :
      LET name == lastCall.jobName
          before == StoreGetJob(b, lastCall.pre, name)
          after == StoreGetJob(b, stores, name)
      IN /\ lastCall.ret[b] = (before # NoJob)
         /\ before # NoJob =>
              after = [before EXCEPT !.isPaused = (lastCall.op = "pauseJob"),
                                     !.updatedAt = lastCall.at]
         /\ before = NoJob => after = NoJob

\* C27: after saveJobRun(run) on an adapter, getJobRun(run.id) returns the
\* run as saved and getJobRuns(run.jobName) lists run.id exactly once,
\* however often the id was saved before.
C27_SaveRunUpserts ==
  lastCall.op = "saveJobRun" =>
    \A b \in RunBackends :
      lastCall.ret[b] = "ok" =>
        /\ StoreGetJobRun(b, stores, lastCall.run.id) = lastCall.run
        /\ CountId(StoreGetJobRuns(b, stores, lastCall.run.jobName, NoLimit),
                   lastCall.run.id) = 1

\* C28: on every adapter getJobRuns(jobName, limit) returns runs of jobName
\* only, by startTime descending with the runs without startTime last, and
\* at most limit runs when a limit is passed, 0 included.
C28_RunsListing ==
  lastCall.op = "getJobRuns" =>
    \A b \in RunBackends :
      LET runs == lastCall.ret[b] IN
      /\ \A i \in 1..Len(runs) : runs[i].jobName = lastCall.jobName
      /\ \A i, j \in 1..Len(runs) : i < j => runs[i].startTime >= runs[j].startTime
      /\ lastCall.limit # NoLimit => Len(runs) <= lastCall.limit

\* ------------------------------------- claims: runs of one execution

\* C31: when the handler failed on attempts 1..k of an execution, storage
\* holds k failed runs of it, with distinct ids and attempts 1, 2, ..., k in
\* the order the attempts ran, and besides them at most the run of attempt
\* k + 1; an execution that threw left exactly retries + 1 runs; and no
\* step changes the attempt of a stored run.
C31_OneRunPerAttempt ==
  /\ [](\A e \in Execs :
          LET failed == RunsWith(e, "failed")
              k == Cardinality(failed)
          IN
          /\ failed = {RunId(e, i) : i \in 1..k}
          /\ \A i \in 1..k : jobRuns[RunId(e, i)].attempt = i
          /\ \A i \in 1..(k - 1) :
               jobRuns[RunId(e, i)].endTime < jobRuns[RunId(e, i + 1)].startTime
          /\ RunsOf(e) \subseteq {RunId(e, i) : i \in 1..(k + 1)}
          /\ \A id \in RunsOf(e) \ failed : jobRuns[id].attempt = k + 1
          /\ exec[e].outcome = "threw" =>
               RunsOf(e) = failed /\ k = exec[e].job.retries + 1)
  /\ [][\A id \in DOMAIN jobRuns :
          id \in DOMAIN jobRuns' /\ jobRuns'[id].attempt = jobRuns[id].attempt]_vars

\* C31 witness: an execution with retries = 2 has thrown after three failed
\* attempts, which left three runs.
C31_Witness ==
  /\ exec[1].pc = "done" /\ exec[1].outcome = "threw"
  /\ exec[1].job.retries = 2
  /\ Cardinality(RunsOf(1)) = 3
  /\ \A i \in 1..3 : jobRuns[RunId(1, i)].status = "failed"

\* C32: when an execution that acquired the lock returns or throws, no
\* lock-extension timer it started is still set and the job's lock record
\* is not its worker's any more.
C32_ScopedRelease ==
  [][\A e \in Execs :
       (exec[e].pc = "release" /\ exec'[e].pc = "done") =>
         /\ exec'[e].extAt = -1
         /\ ~ /\ exec[e].job.name \in DOMAIN StorageLocks'
              /\ StorageLocks'[exec[e].job.name].workerId = exec[e].workerId]_vars

\* C33: a stored run whose status is completed or failed is never changed
\* or removed by a later step of the executor: not by a callback, not by the
\* next attempt, not by a handler that settles after its attempt timed out.
C33_TerminalRunsFrozen ==
  [][\A id \in DOMAIN jobRuns :
       jobRuns[id].status \in {"completed", "failed"} =>
         id \in DOMAIN jobRuns' /\ jobRuns'[id] = jobRuns[id]]_vars

\* C33 witness: the handler of attempt 1, which timed out, has settled
\* while a later attempt exists, and the run of attempt 1 is stored failed
\* with the timed-out error.
C33_Witness ==
  /\ exec[1].attempt >= 2
  /\ RunId(1, 1) \in DOMAIN jobRuns
  /\ jobRuns[RunId(1, 1)].status = "failed"
  /\ jobRuns[RunId(1, 1)].error = "timed out"
  /\ now >= jobRuns[RunId(1, 1)].startTime + SlowHandler
  /\ \A s \in exec[1].stray : s > now
  /\ Cardinality(RunsOf(1)) >= 2

\* The statuses a stored run can take after the given one.
StatusAfter(status) ==
  CASE status = "pending" -> {"pending", "running"}
    [] status = "running" -> {"running", "completed", "failed"}
    [] OTHER -> {status}

\* C34: every run the executor has stored has attempt >= 1, a startTime
\* unless it is pending, and when completed or failed an endTime that is
\* not before its startTime; and the status of a stored run only moves
\* from pending to running and from running to completed or failed.
C34_RunWellFormed ==
  /\ [](\A id \in DOMAIN jobRuns :
          LET r == jobRuns[id] IN
          /\ r.attempt >= 1
          /\ r.status \in {"pending", "running", "completed", "failed"}
          /\ r.status = "pending" => r.startTime = -1 /\ r.endTime = -1
          /\ r.status # "pending" => r.startTime # -1
          /\ r.status = "running" => r.endTime = -1
          /\ r.status \in {"completed", "failed"} =>
               r.endTime # -1 /\ r.endTime >= r.startTime)
  /\ [][\A id \in DOMAIN jobRuns :
          /\ id \in DOMAIN jobRuns'
          /\ jobRuns'[id].status \in StatusAfter(jobRuns[id].status)]_vars

\* C34 witness: the first attempt failed and the second, after the backoff
\* delay, completed; both runs are stored with their times.
C34_Witness ==
  /\ RunsOf(1) = {RunId(1, 1), RunId(1, 2)}
  /\ jobRuns[RunId(1, 1)].status = "failed"
  /\ jobRuns[RunId(1, 2)].status = "completed"
  /\ jobRuns[RunId(1, 2)].attempt = 2
  /\ jobRuns[RunId(1, 2)].endTime > jobRuns[RunId(1, 2)].startTime
  /\ jobRuns[RunId(1, 2)].startTime > jobRuns[RunId(1, 1)].endTime

\* ------------------------------------- claims: timers and lifecycle

\* C35: the Scheduler has at most one set timeout per job name.
C35_OneTimerPerJob ==
  \A name \in Jobs : Cardinality({t \in scheduler.armed : t.name = name}) <= 1

\* C36: no two executions of the same job by the same worker are between
\* lock acquisition and release at the same time.
C36_OneExecutionPerWorker ==
  \A e1, e2 \in Execs :
    ~ /\ e1 # e2
      /\ Inside(e1) /\ Inside(e2)
      /\ exec[e1].workerId = exec[e2].workerId
      /\ exec[e1].job.name = exec[e2].job.name

\* C37: within an execution the handler is invoked for a further attempt
\* only when its previous invocation failed or timed out.
C37_RetryOnlyAfterFailure ==
  [][\A e \in Execs :
       (/\ exec[e].pc = "retries" /\ exec'[e].pc = "handler"
        /\ exec[e].attempt >= 2)
       => ~exec[e].handlerOk]_vars

\* C38: Cronx.isRunning() is true exactly when the Scheduler is running.
C38_RunningAgrees ==
  cronx.isStarted = scheduler.isRunning

\* C39: an execution of a job with options.timeout that acquired the lock
\* ends by returning its run or by throwing JobExecutionError, after at
\* most retries + 1 invocations of the handler, and when it has ended the
\* job's lock record is not its worker's.
C39_TimeoutTerminates ==
  [][\A e \in Execs :
       (/\ exec[e].job.timeout # 0
        /\ exec[e].pc = "release" /\ exec'[e].pc = "done")
       => /\ exec'[e].outcome \in {"completed", "threw"}
          /\ exec'[e].attempt <= exec[e].job.retries + 1
          /\ ~ /\ exec[e].job.name \in DOMAIN StorageLocks'
               /\ StorageLocks'[exec[e].job.name].workerId = exec[e].workerId]_vars

\* C40: a schedule() call that rejects with the StorageError of saveJob
\* leaves the Coordinator as it was: the registered handlers and the
\* Scheduler (its jobs and its timers) are unchanged.
C40_FailedScheduleLeavesNothing ==
  [][(/\ lastCall' # lastCall
      /\ lastCall'.op = "schedule"
      /\ lastCall'.threw = "StorageError")
     => /\ cronx'.jobHandlers = cronx.jobHandlers
        /\ scheduler' = scheduler]_vars

====
